---- MODULE Spec2Model ----
(***************************************************************************)
(* The Muggle Guide single-page client (src/frontend/app.js): session,     *)
(* API client with the 401 refresh protocol, router and view loaders.      *)
(*                                                                         *)
(* One step of the model is one task of the browser's event loop: a user   *)
(* event, the startup script, or the arrival of a network response,        *)
(* together with all the synchronous code it runs.  The return of          *)
(* api.request to its caller is made visible as a state of its own (phase  *)
(* "returned"); the caller's continuation is the only step enabled there,  *)
(* as promise reactions run before any other task.                         *)
(***************************************************************************)
EXTENDS Integers, Sequences, FiniteSets, Bags, TLC

VARIABLES
    token,         \* state.token (in-memory access token)
    user,          \* state.user
    currentPage,   \* state.currentPage
    page,          \* state.page
    searchQuery,   \* state.searchQuery
    genreFilter,   \* state.genreFilter
    totalBooks,    \* state.totalBooks
    timers,        \* bag of the pending search timers (setTimeout)
    localStorage,  \* window.localStorage, a map from keys to values
    navHidden,     \* #navbar carries the class "hidden"
    app,           \* the markup currently inside #app
    calls,         \* bag of pending api calls with the closures awaiting them
    issued,        \* server: number of token pairs issued so far
    booted,        \* init() has run
    events,        \* number of user events so far
    sent,          \* the fetches issued by the last step, in order
    toast,         \* the toast shown by the last step
    act            \* the last step: its name, the operation of the call it
                   \* handled, the status and error detail of the response it
                   \* handled, and whether the resumed call had succeeded

vars == <<token, user, currentPage, page, searchQuery, genreFilter, totalBooks,
          timers, localStorage, navHidden,
          app, calls, issued, booted, events, sent, toast, act>>

\* ------------------------------------------------------------------ bounds
MaxIssued == 3     \* token pairs the server issues in one run
MaxEvents == 2     \* user events (clicks, submits) in one run

\* ------------------------------------------------------------------ values
\* JavaScript null / undefined for object-valued places.
Null == [typ |-> "null"]

\* src/frontend/app.js:64 'mg_refresh'
RefreshKey == "mg_refresh"

\* The access token's middle segment, as JSON.parse(atob(...)) sees it.  A
\* field that is absent is the empty string ("||" treats both alike).
Garbage == [typ |-> "garbage"]
Payloads ==
    { [sub |-> "7", role |-> "admin", username |-> "ann"],
      [sub |-> "8", role |-> "", username |-> ""],
      Garbage }

\* The server issues token pairs for an account, whose claims are the payload
\* of the access token; a refresh issues a pair for the account of the refresh
\* token it is given.  OldRefresh: a durable refresh token left by an earlier
\* page load.
AccessToken(n, p) == [typ |-> "access", n |-> n, payload |-> p]
RefreshTokenValue(n, p) == [typ |-> "refresh", n |-> n, payload |-> p]
OldRefresh(p) == RefreshTokenValue(0, p)

Books == {1, 2}

\* x || d on strings
OrElse(x, d) == IF x = "" THEN d ELSE x

\* parseInt on the subject strings the server issues; NaN (written -1, no
\* user id being negative) otherwise.
NaN == -1
ParseInt(s) ==
    CASE s = "7" -> 7
      [] s = "8" -> 8
      [] OTHER -> NaN

\* `Bearer ${state.token}`
Bearer(tok) == [typ |-> "bearer", token |-> tok]

\* localStorage.getItem / setItem / removeItem
getItem(ls, k) == IF k \in DOMAIN ls THEN ls[k] ELSE Null
setItem(ls, k, v) == [x \in (DOMAIN ls) \cup {k} |-> IF x = k THEN v ELSE ls[x]]
removeItem(ls, k) == [x \in (DOMAIN ls) \ {k} |-> ls[x]]

\* ------------------------------------------------------------------- views
BlankView == [kind |-> "blank"]
AuthView ==
    [kind |-> "auth", isLogin |-> TRUE, errorVisible |-> FALSE,
     errorText |-> "", disabled |-> FALSE, submitText |-> "Sign In"]
\* state.pageSize
pageSize == 20

\* #pagination: empty, or the two buttons (disabled or not, with their
\* data-page) around "Page <page> of <totalPages>".
NoPagination ==
    [present |-> FALSE, page |-> 0, totalPages |-> 0,
     prevDisabled |-> TRUE, prevPage |-> 0, nextDisabled |-> TRUE, nextPage |-> 0]

\* grid: the state of #book-grid; chips: #genre-chips has been filled, with
\* activeChip the data-genre of the chip marked active and chipListeners the
\* click listeners on #genre-chips; input: the value of #search-input;
\* pagination: the content of #pagination, listeners: the click listeners on
\* it.
DiscoverView ==
    [kind |-> "discover", grid |-> "blank", gridMsg |-> "", chips |-> FALSE,
     activeChip |-> "", chipListeners |-> 0, input |-> "",
     pagination |-> NoPagination, listeners |-> 0]
DetailLoadingView == [kind |-> "detailLoading"]
NotFoundView(msg) == [kind |-> "notFound", msg |-> msg]
\* liked / bookmarked: the buttons carry active-like / active-bookmark;
\* rating: the number of filled stars; currentRating: the closure's variable.
DetailView(book, liked, bookmarked, rating) ==
    [kind |-> "detail", book |-> book, liked |-> liked, bookmarked |-> bookmarked,
     rating |-> rating, currentRating |-> rating, similar |-> "loading"]
RecommendationsView == [kind |-> "recommendations", content |-> "loading", msg |-> ""]
\* content: the state of #library-content, items the rows listed and titled
\* the books whose rows carry their title; activeFilter and allInteractions
\* are the variables of the closure of the view.
LibraryView ==
    [kind |-> "library", content |-> "loading", msg |-> "", items |-> <<>>, titled |-> {},
     activeFilter |-> "all", allInteractions |-> <<>>]

\* Server data.  A book is known by its id; a list of books is a sequence of ids.
BookLists == {<<>>, <<1, 2>>}
Record(b, t, r) == [book_id |-> b, interaction_type |-> t, rating |-> r]
InteractionLists ==
    { <<>>,
      <<Record(1, "like", 0)>>,
      <<Record(1, "rate", 4), Record(2, "bookmark", 0), Record(1, "rate", 2)>> }

\* ------------------------------------------------------------ HTTP values
\* A response as fetch delivers it.  status 0 stands for a transport failure
\* (fetch rejects).  The body is unparseable, or JSON with an optional detail
\* (an error payload), or the JSON data of the endpoint.
Unparseable == [typ |-> "unparseable"]
ErrorJson(detail) == [typ |-> "json", detail |-> detail]
ErrBodies == {Unparseable, ErrorJson(""), ErrorJson("denied")}
NetworkFailure == [status |-> 0, body |-> Null]
IsOk(status) == status \in 200..299
Detail(body) == IF body.typ = "json" /\ "detail" \in DOMAIN body THEN body.detail ELSE ""

\* --------------------------------------------------------------- the world
\* The handlers are written as functions from world to world; cur is the call
\* whose response or continuation the running step handles.
World ==
    [token |-> token, user |-> user, currentPage |-> currentPage,
     page |-> page, searchQuery |-> searchQuery, genreFilter |-> genreFilter,
     totalBooks |-> totalBooks, timers |-> timers,
     localStorage |-> localStorage, navHidden |-> navHidden,
     app |-> app, calls |-> calls,
     issued |-> issued, booted |-> booted, events |-> events,
     sent |-> <<>>, toast |-> Null, cur |-> Null]

One(c) == SetToBag({c})

\* The step resumes call c: it leaves the bag and becomes cur.
Resume(c) == [World EXCEPT !.calls = @ (-) One(c), !.cur = c]

Commit(w, name, c, r) ==
    /\ token' = w.token
    /\ user' = w.user
    /\ currentPage' = w.currentPage
    /\ page' = w.page
    /\ searchQuery' = w.searchQuery
    /\ genreFilter' = w.genreFilter
    /\ totalBooks' = w.totalBooks
    /\ timers' = w.timers
    /\ localStorage' = w.localStorage
    /\ navHidden' = w.navHidden
    /\ app' = w.app
    /\ calls' = IF w.cur = Null THEN w.calls ELSE w.calls (+) One(w.cur)
    /\ issued' = w.issued
    /\ booted' = w.booted
    /\ events' = w.events
    /\ sent' = w.sent
    /\ toast' = w.toast
    /\ act' = [name |-> name,
               op |-> IF c = Null THEN "" ELSE c.op,
               status |-> r.status,
               detail |-> Detail(r.body),
               ok |-> c # Null /\ c.result.ok]

\* Replacing the content of #app detaches every element the pending closures
\* captured from the previous content.
DetachCall(c) == IF c = Null THEN c ELSE [c EXCEPT !.live = FALSE]
Detach(B) ==
    LET S == BagToSet(B)
        T == {DetachCall(c) : c \in S}
        Cnt(t) == (IF t \in S THEN B[t] ELSE 0)
                  + (IF [t EXCEPT !.live = TRUE] \in S
                     THEN B[[t EXCEPT !.live = TRUE]] ELSE 0)
    IN  [t \in T |-> Cnt(t)]
SetApp(w, view) ==
    [w EXCEPT !.app = view, !.calls = Detach(@), !.cur = DetachCall(@),
              !.timers = Detach(@)]

\* ----------------------------------------------------------------- results
NoResult == [ok |-> FALSE, data |-> Null, msg |-> ""]
Ok(data) == [ok |-> TRUE, data |-> data, msg |-> ""]
Err(msg) == [ok |-> FALSE, data |-> Null, msg |-> msg]

\* The promise of the running call settles: its caller resumes next.
Return(w, res) ==
    [w EXCEPT !.cur = [@ EXCEPT !.phase = "returned", !.rt = Null, !.result = res]]
\* The running closure has run to its end.
Finish(w) == [w EXCEPT !.cur = Null]

\* api.get / api.post as the callers use them (api.put and api.del have no
\* caller); the refresh is a POST.
Method(kind, op) ==
    IF kind = "refresh" \/ op \in {"login", "register", "view", "like", "bookmark", "rate"}
    THEN "POST"
    ELSE "GET"

\* A fetch as it leaves: its Authorization header, the header the options
\* held before (prev), the in-memory token at that moment (tok), its body.
Fetch(kind, c, auth, tok, body) ==
    [kind |-> kind, method |-> Method(kind, c.op), op |-> c.op, arg |-> c.arg,
     auth |-> auth, prev |-> c.auth, tok |-> tok, body |-> body]

\* ----------------------------------------------------------------- session
hideApp(w) == [w EXCEPT !.navHidden = TRUE]
showApp(w) == [w EXCEPT !.navHidden = FALSE]

renderAuth(w) == SetApp(w, AuthView)

\* Mutant: logout leaves state.user in place.
logoutKeepsUser(w) ==
    renderAuth(hideApp([w EXCEPT !.token = Null,
                                 !.localStorage = removeItem(@, RefreshKey)]))

\* Mutant: logout forgets localStorage.removeItem.
logoutKeepsStorage(w) ==
    renderAuth(hideApp([w EXCEPT !.token = Null, !.user = Null]))

logout(w) ==
    renderAuth(hideApp([w EXCEPT !.token = Null,
                                 !.user = Null,
                                 !.localStorage = removeItem(@, RefreshKey)]))

\* #nav-username shows state.user.username; its text is written here and read
\* nowhere, and is not a variable of the model.
decodeAndSetUser(w, tok) ==
    IF tok = Null \/ tok.payload = Garbage
    THEN w
    ELSE LET p == tok.payload
             u == [user_id |-> ParseInt(p.sub),
                   role |-> OrElse(p.role, "user"),
                   username |-> OrElse(p.username, "User " \o p.sub)]
         IN  [w EXCEPT !.user = u]

\* -------------------------------------------------------------- api client
\* api.refreshToken up to its fetch: the durable token is read and sent.
HasRefresh(w) == getItem(w.localStorage, RefreshKey) # Null
refreshTokenSend(w) ==
    [w EXCEPT !.cur = [@ EXCEPT !.phase = "refresh", !.refreshes = @ + 1,
                                !.rt = getItem(w.localStorage, RefreshKey)],
              !.sent = Append(@, Fetch("refresh", w.cur, Null, w.token,
                                       [refresh_token |-> getItem(w.localStorage, RefreshKey)]))]

\* api.refreshToken from the response of its fetch on.
refreshOk(r) == IsOk(r.status) /\ r.body.typ = "json"
refreshTokenDone(w, r) ==
    IF refreshOk(r)
    THEN [w EXCEPT !.token = r.body.access_token,
                   !.localStorage = setItem(@, RefreshKey, r.body.refresh_token)]
    ELSE w

\* JSON.stringify(body) of the POSTs to /interactions; the GETs have no body:
\* for GET /books the parameters of its URL stand in its place.
RequestBody(op, arg, loc) ==
    CASE op \in {"view", "like", "bookmark"} -> [book_id |-> arg, interaction_type |-> op]
      [] op = "rate" -> [book_id |-> arg, interaction_type |-> op, rating |-> loc.val]
      [] op = "loadBooks" -> [page |-> loc.page, search |-> loc.search, genre |-> loc.genre]
      [] OTHER -> Null

\* api.request up to its first fetch; the new call joins the pending ones.
\* loc holds the caller's locals, live whether the caller's markup is in #app.
request(w, op, arg, loc, live) ==
    LET auth == IF w.token # Null THEN Bearer(w.token) ELSE Null
        c == [op |-> op, arg |-> arg, loc |-> loc, live |-> live,
              phase |-> "first", auth |-> auth, sends |-> 1, refreshes |-> 0, rt |-> Null,
              result |-> NoResult]
    IN  [w EXCEPT !.calls = @ (+) One(c),
                  !.sent = Append(@, Fetch("request", [c EXCEPT !.auth = Null],
                                           auth, w.token, RequestBody(op, arg, loc)))]

\* res.status === 204 ? null : res.json()
Parsed(r) ==
    IF r.status = 204 THEN Ok(Null)
    ELSE IF r.body.typ = "json" THEN Ok(r.body)
    ELSE Err("Unexpected end of JSON input")

\* Mutant: every non-2xx response starts the refresh protocol.
requestFirstRefreshesAll(w, r) ==
    IF r.status = 0 THEN Return(w, Err("Failed to fetch"))
    ELSE IF ~IsOk(r.status)
    THEN IF HasRefresh(w)
         THEN refreshTokenSend(w)
         ELSE Return(logout(w), Err("Session expired"))
    ELSE Return(w, Parsed(r))

\* Mutant: a 401 that finds a refresh in flight waits for it instead of
\* sending its own.
requestFirstSharesRefresh(w, r) ==
    IF /\ r.status = 401
       /\ HasRefresh(w)
       /\ \E o \in BagToSet(w.calls) : o.phase = "refresh"
    THEN [w EXCEPT !.cur = [@ EXCEPT !.phase = "refresh", !.refreshes = @ + 1,
                                     !.rt = getItem(w.localStorage, RefreshKey)]]
    ELSE IF r.status = 0 THEN Return(w, Err("Failed to fetch"))
    ELSE IF r.status = 401
    THEN IF HasRefresh(w)
         THEN refreshTokenSend(w)
         ELSE Return(logout(w), Err("Session expired"))
    ELSE IF ~IsOk(r.status)
    THEN Return(w, Err(OrElse(Detail(r.body), "Error " \o ToString(r.status))))
    ELSE Return(w, Parsed(r))

\* api.request from the response of the first fetch on.
requestFirst(w, r) ==
    IF r.status = 0 THEN Return(w, Err("Failed to fetch"))
    ELSE IF r.status = 401
    THEN IF HasRefresh(w)
         THEN refreshTokenSend(w)
         ELSE Return(logout(w), Err("Session expired"))
    ELSE IF ~IsOk(r.status)
    THEN Return(w, Err(OrElse(Detail(r.body), "Error " \o ToString(r.status))))
    ELSE Return(w, Parsed(r))

\* Mutant: the retry leaves with the options of the first send (line 45 is
\* missing).
requestRefreshedOldHeader(w, r) ==
    LET w1 == refreshTokenDone(w, r)
    IN  IF refreshOk(r)
        THEN [w1 EXCEPT !.cur = [@ EXCEPT !.phase = "retry", !.rt = Null, !.sends = @ + 1],
                        !.sent = Append(@, Fetch("retry", w1.cur, w1.cur.auth, w1.token, Null))]
        ELSE Return(logout(w1), Err("Session expired"))

\* api.request from the response of its refresh on: retry, or tear down.
requestRefreshed(w, r) ==
    LET w1 == refreshTokenDone(w, r)
    IN  IF refreshOk(r)
        THEN LET auth == Bearer(w1.token)
             IN  [w1 EXCEPT !.cur = [@ EXCEPT !.phase = "retry", !.auth = auth, !.rt = Null,
                                              !.sends = @ + 1],
                            !.sent = Append(@, Fetch("retry", w1.cur, auth, w1.token, Null))]
        ELSE Return(logout(w1), Err("Session expired"))

\* Mutant: the retry's response is handled like the first one, so that a 401
\* on the retry refreshes again.
requestRetriedLoop(w, r) == requestFirst(w, r)

\* api.request from the response of the retry on.
requestRetried(w, r) ==
    IF r.status = 0 THEN Return(w, Err("Failed to fetch"))
    ELSE IF ~IsOk(r.status)
    THEN IF r.body.typ = "json"
         THEN Return(w, Err(OrElse(Detail(r.body), "Request failed")))
         ELSE Return(w, Err("Unexpected end of JSON input"))
    ELSE Return(w, Parsed(r))

\* ------------------------------------------------------------------ views
NoLoc == [typ |-> "none"]

renderGenreChips(w) ==
    IF w.app.kind = "discover"
    THEN [w EXCEPT !.app.chips = TRUE,
                   !.app.activeChip = w.genreFilter,
                   !.app.chipListeners = @ + 1]
    ELSE w

\* Math.ceil(state.totalBooks / state.pageSize)
Ceil(n, d) == (n + d - 1) \div d

\* Mutant: the number of pages is rounded down.
PaginationFloor(total, pg) ==
    LET totalPages == total \div pageSize
    IN  IF totalPages <= 1 THEN NoPagination
        ELSE [present |-> TRUE, page |-> pg, totalPages |-> totalPages,
              prevDisabled |-> pg <= 1, prevPage |-> pg - 1,
              nextDisabled |-> pg >= totalPages, nextPage |-> pg + 1]

\* The markup renderPagination writes for a total and a page.
Pagination(total, pg) ==
    LET totalPages == Ceil(total, pageSize)
    IN  IF totalPages <= 1 THEN NoPagination
        ELSE [present |-> TRUE, page |-> pg, totalPages |-> totalPages,
              prevDisabled |-> pg <= 1, prevPage |-> pg - 1,
              nextDisabled |-> pg >= totalPages, nextPage |-> pg + 1]

\* renderPagination: #pagination of the document is rewritten from the state
\* and, when there is more than one page, gets one more click listener.
renderPagination(w) ==
    IF w.app.kind # "discover" THEN w
    ELSE LET pag == Pagination(w.totalBooks, w.page)
         IN  [w EXCEPT !.app.pagination = pag,
                       !.app.listeners = IF pag.present THEN @ + 1 ELSE @]

\* loadBooks up to its fetch.
loadBooks(w, fromRender) ==
    IF w.app.kind # "discover"
    THEN w
    ELSE request([w EXCEPT !.app.grid = "skeleton", !.app.gridMsg = ""],
                 "loadBooks", 0,
                 [fromRender |-> fromRender, page |-> w.page,
                  search |-> w.searchQuery, genre |-> w.genreFilter], TRUE)

\* loadBooks from the return of api.get on, then the rest of renderDiscover
\* when it is renderDiscover that awaits this load.
loadBooksDone(w) ==
    LET c == w.cur
        res == c.result
        w1 == IF res.ok
              THEN renderPagination(
                     [(IF c.live
                       THEN [w EXCEPT !.app.grid = IF Len(res.data.books) = 0
                                                   THEN "empty" ELSE "books"]
                       ELSE w)
                        EXCEPT !.totalBooks = res.data.total])
              ELSE IF c.live
              THEN [w EXCEPT !.app.grid = "error", !.app.gridMsg = res.msg]
              ELSE w
        w2 == IF c.loc.fromRender THEN renderGenreChips(w1) ELSE w1
    IN  Finish(w2)

renderDiscover(w) ==
    loadBooks(SetApp(w, [DiscoverView EXCEPT !.input = w.searchQuery]), TRUE)

\* String.prototype.trim on the values the model types.
Trim(str) == IF str = " " THEN "" ELSE str

\* The input handler of #search-input: clearTimeout(searchTimer) and a new
\* setTimeout.  searchTimer belongs to the view that is in #app.
Timer(value) == [value |-> value, live |-> TRUE]
clearTimeout(B) ==
    LET S == {t \in BagToSet(B) : ~t.live} IN [t \in S |-> B[t]]
\* Mutant: the input handler arms a timer without clearing the pending one.
inputNoClear(w, value) ==
    [w EXCEPT !.app.input = value, !.timers = @ (+) One(Timer(value))]

input(w, value) ==
    [w EXCEPT !.app.input = value,
              !.timers = clearTimeout(@) (+) One(Timer(value))]

\* Mutant: the callback of the timer leaves state.page alone.
timerFiredKeepsPage(w, t) ==
    LET value == IF t.live THEN w.app.input ELSE t.value
    IN  loadBooks([w EXCEPT !.timers = @ (-) One(t),
                            !.searchQuery = Trim(value)], FALSE)

\* The callback of the timer: e.target.value is read when it runs.
timerFired(w, t) ==
    LET value == IF t.live THEN w.app.input ELSE t.value
    IN  loadBooks([w EXCEPT !.timers = @ (-) One(t),
                            !.searchQuery = Trim(value),
                            !.page = 1], FALSE)

\* A click on a genre chip runs every click listener of #genre-chips.
RECURSIVE chipClicked(_, _, _)
chipClicked(w, genre, n) ==
    IF n = 0 THEN w
    ELSE chipClicked(loadBooks([w EXCEPT !.genreFilter = genre,
                                         !.page = 1,
                                         !.app.activeChip = genre], FALSE),
                     genre, n - 1)
genreClick(w, genre) == chipClicked(w, genre, w.app.chipListeners)

\* A click on Previous or Next runs every click listener of #pagination; a
\* disabled button stops each of them.
RECURSIVE buttonClicked(_, _, _)
buttonClicked(w, dataPage, n) ==
    IF n = 0 THEN w
    ELSE buttonClicked(loadBooks([w EXCEPT !.page = dataPage], FALSE), dataPage, n - 1)
paginationClick(w, which) ==
    LET pag == w.app.pagination
        disabled == IF which = "prev" THEN pag.prevDisabled ELSE pag.nextDisabled
        dataPage == IF which = "prev" THEN pag.prevPage ELSE pag.nextPage
    IN  IF disabled THEN w ELSE buttonClicked(w, dataPage, w.app.listeners)

\* renderBookDetail: the markup is replaced, then the book is fetched.
renderBookDetail(w, bookId) ==
    request(SetApp(w, DetailLoadingView), "book", bookId, NoLoc, TRUE)

bookDone(w) ==
    LET c == w.cur
    IN  IF c.result.ok
        THEN request(Finish(w), "interactions", c.arg, [book |-> c.result.data.id], c.live)
        ELSE Finish(SetApp(w, NotFoundView(c.result.msg)))

\* interactions.forEach(...) of renderBookDetail
RECURSIVE Fold(_, _, _)
Fold(list, bookId, e) ==
    IF list = <<>> THEN e
    ELSE LET i == Head(list)
             e1 == IF i.book_id # bookId THEN e
                   ELSE [liked |-> e.liked \/ i.interaction_type = "like",
                         bookmarked |-> e.bookmarked \/ i.interaction_type = "bookmark",
                         rating |-> IF i.interaction_type = "rate" /\ i.rating # 0
                                    THEN i.rating ELSE e.rating]
         IN  Fold(Tail(list), bookId, e1)
DefaultEntry == [liked |-> FALSE, bookmarked |-> FALSE, rating |-> 0]

\* Mutant: a failed interactions fetch is not swallowed and ends the entry in
\* the not-found markup.
interactionsDoneStrict(w) ==
    LET c == w.cur
    IN  IF c.result.ok
        THEN request(Finish(w), "view", c.arg,
                     [book |-> c.loc.book,
                      entry |-> Fold(c.result.data.list, c.arg, DefaultEntry)], c.live)
        ELSE Finish(SetApp(w, NotFoundView(c.result.msg)))

interactionsDone(w) ==
    LET c == w.cur
        e == IF c.result.ok THEN Fold(c.result.data.list, c.arg, DefaultEntry)
             ELSE DefaultEntry
    IN  request(Finish(w), "view", c.arg, [book |-> c.loc.book, entry |-> e], c.live)

\* loadSimilarBooks up to its fetch.
loadSimilarBooks(w, bookId) ==
    IF w.app.kind # "detail" THEN w
    ELSE request(w, "similar", bookId, NoLoc, TRUE)

viewDone(w) ==
    LET c == w.cur
        e == c.loc.entry
        w1 == SetApp(w, DetailView(c.loc.book, e.liked, e.bookmarked, e.rating))
    IN  loadSimilarBooks(Finish(w1), c.arg)

similarDone(w) ==
    LET c == w.cur
        res == c.result
    IN  Finish(IF ~c.live THEN w
               ELSE IF ~res.ok THEN [w EXCEPT !.app.similar = "later"]
               ELSE IF res.data = Null \/ Len(res.data.recommendations) = 0
               THEN [w EXCEPT !.app.similar = "none"]
               ELSE [w EXCEPT !.app.similar = "list"])

\* Mutant: the like handler without its active-like test.
likeClickAlways(w) == request(w, "like", w.app.book, NoLoc, TRUE)

\* The click handlers of #like-btn and #bookmark-btn up to their fetch.
likeClick(w) ==
    IF w.app.liked THEN w ELSE request(w, "like", w.app.book, NoLoc, TRUE)
bookmarkClick(w) ==
    IF w.app.bookmarked THEN w ELSE request(w, "bookmark", w.app.book, NoLoc, TRUE)

\* ... and from the return of api.post on.
Failed(w) == [w EXCEPT !.toast = [type |-> "error", msg |-> w.cur.result.msg]]
\* Mutant: the confirmed like toggles the class of the button.
likeDoneToggles(w) ==
    LET c == w.cur
    IN  Finish(IF ~c.result.ok THEN Failed(w)
               ELSE [(IF c.live THEN [w EXCEPT !.app.liked = ~@] ELSE w)
                        EXCEPT !.toast = [type |-> "success", msg |-> "Added to your likes"]])

likeDone(w) ==
    LET c == w.cur
    IN  Finish(IF ~c.result.ok THEN Failed(w)
               ELSE [(IF c.live THEN [w EXCEPT !.app.liked = TRUE] ELSE w)
                        EXCEPT !.toast = [type |-> "success", msg |-> "Added to your likes"]])
bookmarkDone(w) ==
    LET c == w.cur
    IN  Finish(IF ~c.result.ok THEN Failed(w)
               ELSE [(IF c.live THEN [w EXCEPT !.app.bookmarked = TRUE] ELSE w)
                        EXCEPT !.toast = [type |-> "success", msg |-> "Bookmarked!"]])

\* The click handler of a star up to its fetch, and from the return on.
starClick(w, val) ==
    IF val = w.app.currentRating THEN w
    ELSE request(w, "rate", w.app.book, [val |-> val], TRUE)
\* Mutant: the stars are filled whatever the outcome of the write.
rateDoneOptimistic(w) ==
    LET c == w.cur
        val == c.loc.val
    IN  Finish(IF ~c.result.ok
               THEN Failed([w EXCEPT !.app.currentRating = val, !.app.rating = val])
               ELSE [w EXCEPT !.app.currentRating = val, !.app.rating = val])

rateDone(w) ==
    LET c == w.cur
        val == c.loc.val
    IN  Finish(IF ~c.result.ok THEN Failed(w)
               ELSE [(IF c.live
                      THEN [w EXCEPT !.app.currentRating = val, !.app.rating = val]
                      ELSE w)
                        EXCEPT !.toast = [type |-> "success",
                                          msg |-> "Rated " \o ToString(val)
                                                  \o (IF val > 1 THEN " stars" ELSE " star")]])

renderRecommendations(w) ==
    request(SetApp(w, RecommendationsView), "recommendations", 0, NoLoc, TRUE)

recommendationsDone(w) ==
    LET c == w.cur
        res == c.result
    IN  Finish(IF ~c.live THEN w
               ELSE IF ~res.ok THEN [w EXCEPT !.app.content = "error", !.app.msg = res.msg]
               ELSE IF res.data = Null \/ Len(res.data.recommendations) = 0
               THEN [w EXCEPT !.app.content = "empty"]
               ELSE [w EXCEPT !.app.content = "list"])

\* [...new Set(interactions.map(i => i.book_id))]
RECURSIVE Distinct(_, _)
Distinct(list, seen) ==
    IF list = <<>> THEN <<>>
    ELSE IF Head(list).book_id \in seen THEN Distinct(Tail(list), seen)
    ELSE <<Head(list).book_id>> \o Distinct(Tail(list), seen \cup {Head(list).book_id})

\* interactions.filter(i => i.interaction_type === filter)
RECURSIVE Filter(_, _)
Filter(list, filter) ==
    IF list = <<>> THEN <<>>
    ELSE IF filter = "all" \/ Head(list).interaction_type = filter
    THEN <<Head(list)>> \o Filter(Tail(list), filter)
    ELSE Filter(Tail(list), filter)

\* enrichLibraryItems: the book of the next id is fetched, one id at a time.
enrichNext(w, ids) ==
    IF ids = <<>> THEN w
    ELSE request(w, "enrich", Head(ids), [rest |-> Tail(ids)], TRUE)

enrichLibraryItems(w, interactions) == enrichNext(w, Distinct(interactions, {}))

enrichDone(w) ==
    LET c == w.cur
        w1 == IF /\ c.result.ok
                 /\ w.app.kind = "library"
                 /\ w.app.content = "list"
                 /\ \E k \in 1..Len(w.app.items) : w.app.items[k].book_id = c.arg
              THEN [w EXCEPT !.app.titled = @ \cup {c.arg}]
              ELSE w
    IN  enrichNext(Finish(w1), c.loc.rest)

renderLibraryList(w, interactions, filter) ==
    IF w.app.kind # "library" THEN w
    ELSE LET filtered == Filter(interactions, filter)
         IN  IF filtered = <<>>
             THEN [w EXCEPT !.app.content = "empty", !.app.msg = "",
                            !.app.items = <<>>, !.app.titled = {}]
             ELSE enrichLibraryItems(
                      [w EXCEPT !.app.content = "list", !.app.msg = "",
                                !.app.items = filtered, !.app.titled = {}],
                      filtered)

\* renderLibrary up to its fetch; loc.filter of the call is activeFilter of
\* the closure that awaits it.
renderLibrary(w) ==
    request(SetApp(w, LibraryView), "library", 0, [filter |-> "all"], TRUE)

\* Mutant: a failed fetch of the history ends in the empty list.
libraryDoneEmptyOnError(w) ==
    LET c == w.cur
        res == c.result
    IN  IF res.ok
        THEN renderLibraryList(
                 Finish(IF c.live THEN [w EXCEPT !.app.allInteractions = res.data.list] ELSE w),
                 res.data.list, c.loc.filter)
        ELSE renderLibraryList(Finish(w), <<>>, c.loc.filter)

\* renderLibrary from the return of api.get on.
libraryDone(w) ==
    LET c == w.cur
        res == c.result
    IN  IF res.ok
        THEN renderLibraryList(
                 Finish(IF c.live THEN [w EXCEPT !.app.allInteractions = res.data.list] ELSE w),
                 res.data.list, c.loc.filter)
        ELSE Finish(IF c.live
                    THEN [w EXCEPT !.app.content = "error", !.app.msg = res.msg]
                    ELSE w)

\* Mutant: a click on a tab fetches the history again.
tabClickRefetches(w, filter) ==
    request([w EXCEPT !.app.activeFilter = filter, !.app.content = "loading"],
            "library", 0, [filter |-> filter], TRUE)

\* The click handler of #library-tabs: activeFilter of the closure changes,
\* also for the fetch of the view that is still awaited.
Retarget(c, filter) ==
    IF c.op = "library" /\ c.live THEN [c EXCEPT !.loc.filter = filter] ELSE c
SetFilter(B, filter) ==
    LET S == BagToSet(B)
    IN  [t \in {Retarget(c, filter) : c \in S} |->
            BagCardinality([c \in {x \in S : Retarget(x, filter) = t} |-> B[c]])]
tabClick(w, filter) ==
    renderLibraryList([w EXCEPT !.app.activeFilter = filter,
                                !.calls = SetFilter(@, filter)],
                      w.app.allInteractions, filter)

\* ------------------------------------------------------------------ router
\* Mutant: navigate does nothing when its target is the page already active.
navigateOnce(w, dest, id) ==
    IF dest = w.currentPage THEN w
    ELSE LET w1 == [w EXCEPT !.currentPage = dest]
         IN  CASE dest = "discover" -> renderDiscover(w1)
               [] dest = "book" -> renderBookDetail(w1, id)
               [] dest = "recommendations" -> renderRecommendations(w1)
               [] dest = "library" -> renderLibrary(w1)
               [] OTHER -> renderDiscover(w1)

navigate(w, dest, id) ==
    LET w1 == [w EXCEPT !.currentPage = dest]
    IN  CASE dest = "discover" -> renderDiscover(w1)
          [] dest = "book" -> renderBookDetail(w1, id)
          [] dest = "recommendations" -> renderRecommendations(w1)
          [] dest = "library" -> renderLibrary(w1)
          [] OTHER -> renderDiscover(w1)

\* -------------------------------------------------------------------- auth
\* login / register from the return of api.post on, and the catch of the
\* submit handler that awaits them.
authDone(w, welcome) ==
    LET c == w.cur
        res == c.result
    IN  IF res.ok
        THEN LET data == res.data
                 w1 == [w EXCEPT !.token = data.access_token,
                                 !.localStorage = setItem(@, RefreshKey, data.refresh_token)]
                 w2 == showApp(decodeAndSetUser(w1, data.access_token))
                 w3 == navigate(Finish(w2), "discover", 0)
             IN  [w3 EXCEPT !.toast = [type |-> "success", msg |-> welcome]]
        ELSE Finish(IF c.live
                    THEN [w EXCEPT !.app.errorText = res.msg,
                                   !.app.errorVisible = TRUE,
                                   !.app.disabled = FALSE,
                                   !.app.submitText = IF w.app.isLogin THEN "Sign In"
                                                      ELSE "Create Account"]
                    ELSE w)

\* Mutant: register stores the access token as the durable value.
registerStoresAccess(w) ==
    IF w.cur.result.ok
    THEN [authDone(w, "Account created! Happy reading")
             EXCEPT !.localStorage = setItem(w.localStorage, RefreshKey,
                                             w.cur.result.data.access_token)]
    ELSE authDone(w, "Account created! Happy reading")

\* Mutant: login keeps the refresh token of the response to itself.
loginForgetsStorage(w) ==
    IF w.cur.result.ok
    THEN [authDone(w, "Welcome back!") EXCEPT !.localStorage = w.localStorage]
    ELSE authDone(w, "Welcome back!")

login(w) == authDone(w, "Welcome back!")
register(w) == authDone(w, "Account created! Happy reading")

\* The submit handler of the auth form up to the fetch of login / register.
submit(w) ==
    request([w EXCEPT !.app.errorVisible = FALSE,
                      !.app.disabled = TRUE,
                      !.app.submitText = IF w.app.isLogin THEN "Signing in..."
                                         ELSE "Creating account..."],
            IF w.app.isLogin THEN "login" ELSE "register", 0, NoLoc, TRUE)

\* The click handler of #auth-toggle-link.
toggle(w) ==
    [w EXCEPT !.app.isLogin = ~@,
              !.app.errorVisible = FALSE,
              !.app.submitText = IF w.app.isLogin THEN "Create Account" ELSE "Sign In"]

\* -------------------------------------------------------------------- init
RestoreCall ==
    [op |-> "restore", arg |-> 0, loc |-> NoLoc, live |-> TRUE, phase |-> "first",
     auth |-> Null, sends |-> 0, refreshes |-> 0, rt |-> Null, result |-> NoResult]

\* Mutant: init attempts the refresh without looking at the storage first.
initAlwaysRefreshes(w) ==
    refreshTokenSend([w EXCEPT !.booted = TRUE, !.cur = RestoreCall])

init(w) ==
    LET w1 == [w EXCEPT !.booted = TRUE]
    IN  IF HasRefresh(w1)
        THEN refreshTokenSend([w1 EXCEPT !.cur = RestoreCall])
        ELSE renderAuth(w1)

\* api.refreshToken called by init, from the response of its fetch on.
restoreRefreshed(w, r) ==
    Return(refreshTokenDone(w, r), IF refreshOk(r) THEN Ok(Null) ELSE Err(""))

\* The then-callback of init.
initRestored(w) ==
    IF w.cur.result.ok
    THEN navigate(showApp(decodeAndSetUser(Finish(w), w.token)), "discover", 0)
    ELSE renderAuth(Finish(w))

\* ------------------------------------------------------------------ server
TokenBody(n, p) ==
    [typ |-> "json", access_token |-> AccessToken(n, p),
     refresh_token |-> RefreshTokenValue(n, p)]

IssuesTokens(c) == c.phase = "refresh" \/ c.op \in {"login", "register", "restore"}

OkBodies(c) ==
    CASE IssuesTokens(c) ->
            IF issued >= MaxIssued THEN {}
            ELSE IF c.phase = "refresh" THEN {TokenBody(issued + 1, c.rt.payload)}
            ELSE {TokenBody(issued + 1, p) : p \in Payloads}
      [] c.op = "loadBooks" ->
            {[typ |-> "json", books |-> l, total |-> Len(l)] : l \in BookLists}
      [] c.op \in {"book", "enrich", "view", "like", "bookmark", "rate"} ->
            {[typ |-> "json", id |-> c.arg]}
      [] c.op \in {"interactions", "library"} ->
            {[typ |-> "json", list |-> l] : l \in InteractionLists}
      [] c.op \in {"similar", "recommendations"} ->
            {[typ |-> "json", recommendations |-> l] : l \in BookLists}
      [] OTHER -> {}

OkStatus(c) == IF c.op = "register" /\ c.phase # "refresh" THEN 201 ELSE 200
ErrStatuses == {401, 403}

Responses(c) ==
    {[status |-> OkStatus(c), body |-> b] : b \in OkBodies(c)}
    \cup {[status |-> s, body |-> b] : s \in ErrStatuses, b \in ErrBodies}
    \cup {NetworkFailure}

\* The world of a step that handles response r to call c.
Arrive(c, r) ==
    [Resume(c) EXCEPT !.issued = IF IsOk(r.status) /\ IssuesTokens(c) THEN @ + 1 ELSE @]

\* ----------------------------------------------------------------- actions
Pending == BagToSet(calls)
Waiting == {c \in Pending : c.phase # "returned"}
Quiet == \A c \in Pending : c.phase # "returned"
\* The page is interactive: the user may act, and the step counts the event.
Idle == booted /\ Quiet /\ events < MaxEvents
User == [World EXCEPT !.events = @ + 1]
NoStep == [status |-> -1, body |-> Null]

Init ==
    /\ token = Null
    /\ user = Null
    /\ currentPage = "null"
    /\ page = 1
    /\ searchQuery = ""
    /\ genreFilter = ""
    /\ totalBooks = 0
    /\ timers = EmptyBag
    /\ localStorage \in {<<>>} \cup {[x \in {RefreshKey} |-> OldRefresh(p)] : p \in Payloads}
    /\ navHidden = TRUE
    /\ app = BlankView
    /\ calls = EmptyBag
    /\ issued = 0
    /\ booted = FALSE
    /\ events = 0
    /\ sent = <<>>
    /\ toast = Null
    /\ act = [name |-> "Init", op |-> "", status |-> -1, detail |-> "", ok |-> FALSE]

Boot ==
    /\ ~booted
    /\ Commit(init(World), "Boot", Null, NoStep)

Submit ==
    /\ Idle
    /\ app.kind = "auth" /\ ~app.disabled
    /\ Commit(submit(User), "Submit", Null, NoStep)

Toggle ==
    /\ Idle
    /\ app.kind = "auth"
    /\ Commit(toggle(User), "Toggle", Null, NoStep)

LogoutClick ==
    /\ Idle
    /\ ~navHidden
    /\ Commit(logout(User), "LogoutClick", Null, NoStep)

\* The step records the control clicked as the thing it handled.
Control(name) == [op |-> name, result |-> NoResult]

\* A click on a link of the navigation bar.
NavClick(dest) ==
    /\ Idle
    /\ ~navHidden
    /\ Commit(navigate(User, dest, 0), "NavClick", Control(dest), NoStep)

\* A click on a book card, a similar card, a recommendation or a library row.
ShownBooks ==
    CASE app.kind = "discover" /\ app.grid = "books" -> Books
      [] app.kind = "detail" /\ app.similar = "list" -> Books
      [] app.kind = "recommendations" /\ app.content = "list" -> Books
      [] app.kind = "library" /\ app.content = "list" ->
            {app.items[k].book_id : k \in 1..Len(app.items)}
      [] OTHER -> {}

BookClick(id) ==
    /\ Idle
    /\ id \in ShownBooks
    /\ Commit(navigate(User, "book", id), "BookClick", Null, NoStep)

\* #back-btn, the "Back to Discover" button, #go-discover and #go-discover-lib.
HasDiscoverButton ==
    \/ app.kind \in {"detail", "notFound"}
    \/ app.kind \in {"recommendations", "library"} /\ app.content = "empty"

DiscoverClick ==
    /\ Idle
    /\ HasDiscoverButton
    /\ Commit(navigate(User, "discover", 0), "DiscoverClick", Null, NoStep)

RespondRestore(c, r) ==
    /\ Quiet
    /\ c.op = "restore" /\ c.phase = "refresh"
    /\ Commit(restoreRefreshed(Arrive(c, r), r), "RespondRestore", c, r)

RespondFirst(c, r) ==
    /\ Quiet
    /\ c.phase = "first"
    /\ Commit(requestFirst(Arrive(c, r), r), "RespondFirst", c, r)

RespondRefresh(c, r) ==
    /\ Quiet
    /\ c.op # "restore" /\ c.phase = "refresh"
    /\ Commit(requestRefreshed(Arrive(c, r), r), "RespondRefresh", c, r)

RespondRetry(c, r) ==
    /\ Quiet
    /\ c.phase = "retry"
    /\ Commit(requestRetried(Arrive(c, r), r), "RespondRetry", c, r)

\* The closure awaiting call c resumes with its result.
resume(w) ==
    CASE w.cur.op = "restore" -> initRestored(w)
      [] w.cur.op = "login" -> login(w)
      [] w.cur.op = "register" -> register(w)
      [] w.cur.op = "loadBooks" -> loadBooksDone(w)
      [] w.cur.op = "book" -> bookDone(w)
      [] w.cur.op = "interactions" -> interactionsDone(w)
      [] w.cur.op = "view" -> viewDone(w)
      [] w.cur.op = "similar" -> similarDone(w)
      [] w.cur.op = "recommendations" -> recommendationsDone(w)
      [] w.cur.op = "library" -> libraryDone(w)
      [] w.cur.op = "enrich" -> enrichDone(w)
      [] w.cur.op = "like" -> likeDone(w)
      [] w.cur.op = "bookmark" -> bookmarkDone(w)
      [] w.cur.op = "rate" -> rateDone(w)

Continue(c) ==
    /\ c.phase = "returned"
    /\ Commit(resume(Resume(c)), "Continue", c, NoStep)

Next ==
    \/ Boot
    \/ Submit
    \/ Toggle
    \/ LogoutClick
    \/ \E dest \in {"discover"} : NavClick(dest)
    \/ \E id \in Books : BookClick(id)
    \/ DiscoverClick
    \/ \E c \in Waiting : \E r \in Responses(c) : RespondRestore(c, r)
    \/ \E c \in Waiting : \E r \in Responses(c) : RespondFirst(c, r)
    \/ \E c \in Waiting : \E r \in Responses(c) : RespondRefresh(c, r)
    \/ \E c \in Waiting : \E r \in Responses(c) : RespondRetry(c, r)
    \/ \E c \in Pending : Continue(c)

Spec == Init /\ [][Next]_vars

\* ------------------------------------------------------------ book detail
\* The Book Detail view of a signed-in session, from the moment the entry has
\* rendered the book (the similar books have been loaded and there are none):
\* the clicks on Like, Bookmark, the stars and Back, and the network.
Stars == 1..5

InitDetail ==
    \E b \in Books : \E l \in InteractionLists :
        LET p == [sub |-> "7", role |-> "admin", username |-> "ann"]
            e == Fold(l, b, DefaultEntry)
        IN  /\ token = AccessToken(1, p)
            /\ user = [user_id |-> 7, role |-> "admin", username |-> "ann"]
            /\ currentPage = "book"
            /\ page = 1
            /\ searchQuery = ""
            /\ genreFilter = ""
            /\ totalBooks = 2
            /\ timers = EmptyBag
            /\ localStorage = [x \in {RefreshKey} |-> RefreshTokenValue(1, p)]
            /\ navHidden = FALSE
            /\ app = [DetailView(b, e.liked, e.bookmarked, e.rating) EXCEPT !.similar = "none"]
            /\ calls = EmptyBag
            /\ issued = 1
            /\ booted = TRUE
            /\ events = 0
            /\ sent = <<>>
            /\ toast = Null
            /\ act = [name |-> "Init", op |-> "", status |-> -1, detail |-> "", ok |-> FALSE]

LikeClick ==
    /\ Idle
    /\ app.kind = "detail"
    /\ Commit(likeClick(User), "LikeClick", Null, NoStep)

BookmarkClick ==
    /\ Idle
    /\ app.kind = "detail"
    /\ Commit(bookmarkClick(User), "BookmarkClick", Null, NoStep)

StarClick(val) ==
    /\ Idle
    /\ app.kind = "detail"
    /\ Commit(starClick(User, val), "StarClick", Null, NoStep)

NextDetail ==
    \/ LikeClick
    \/ BookmarkClick
    \/ \E val \in Stars : StarClick(val)
    \/ DiscoverClick
    \/ \E c \in Waiting : \E r \in Responses(c) : RespondFirst(c, r)
    \/ \E c \in Waiting : \E r \in Responses(c) : RespondRefresh(c, r)
    \/ \E c \in Waiting : \E r \in Responses(c) : RespondRetry(c, r)
    \/ \E c \in Pending : Continue(c)

SpecDetail == InitDetail /\ [][NextDetail]_vars

\* --------------------------------------------------------------- discover
\* The Discover view of a signed-in session, from navigate('discover') on:
\* typing in the search box, the debounce timers, the genre chips, the
\* pagination buttons, a navigation away or to a new Discover view, and the
\* answers to the list fetches.  state.page and state.totalBooks are what an
\* earlier visit has left.
Typed == {"fantasy", "fantasy novel", " "}
Genres == {"", "Fantasy"}
Totals == {0, 20, 21, 45}
Earlier == {<<1, 0>>, <<2, 45>>, <<3, 45>>}

Entered(pg, total) ==
    LET p == [sub |-> "7", role |-> "admin", username |-> "ann"]
    IN  navigate([token |-> AccessToken(1, p),
                  user |-> [user_id |-> 7, role |-> "admin", username |-> "ann"],
                  currentPage |-> "discover",
                  page |-> pg, searchQuery |-> "", genreFilter |-> "",
                  totalBooks |-> total, timers |-> EmptyBag,
                  localStorage |-> [x \in {RefreshKey} |-> RefreshTokenValue(1, p)],
                  navHidden |-> FALSE, app |-> BlankView, calls |-> EmptyBag,
                  issued |-> 1, booted |-> TRUE, events |-> 0,
                  sent |-> <<>>, toast |-> Null, cur |-> Null],
                 "discover", 0)

InitDiscover ==
    \E e \in Earlier :
        LET w == Entered(e[1], e[2])
        IN  /\ token = w.token
            /\ user = w.user
            /\ currentPage = w.currentPage
            /\ page = w.page
            /\ searchQuery = w.searchQuery
            /\ genreFilter = w.genreFilter
            /\ totalBooks = w.totalBooks
            /\ timers = w.timers
            /\ localStorage = w.localStorage
            /\ navHidden = w.navHidden
            /\ app = w.app
            /\ calls = w.calls
            /\ issued = w.issued
            /\ booted = w.booted
            /\ events = w.events
            /\ sent = w.sent
            /\ toast = w.toast
            /\ act = [name |-> "Init", op |-> "", status |-> -1, detail |-> "", ok |-> FALSE]

Input(value) ==
    /\ Idle
    /\ app.kind = "discover"
    /\ Commit(input(User, value), "Input", Null, NoStep)

\* The quiet interval of a pending timer has elapsed.
TimerFires(t) ==
    /\ Quiet
    /\ Commit(timerFired(World, t), "TimerFires", Null, NoStep)

GenreClick(genre) ==
    /\ Idle
    /\ app.kind = "discover" /\ app.chips
    /\ Commit(genreClick(User, genre), "GenreClick", Null, NoStep)

PaginationClick(which) ==
    /\ Idle
    /\ app.kind = "discover" /\ app.pagination.present
    /\ Commit(paginationClick(User, which), "PaginationClick", Control(which), NoStep)

\* The answers to GET /books, and to the load of the other view.
ListResponses(c) ==
    IF c.op = "loadBooks"
    THEN {[status |-> 200,
           body |-> [typ |-> "json", books |-> IF n = 0 THEN <<>> ELSE <<1, 2>>,
                     total |-> n]] : n \in Totals}
         \cup {[status |-> 403, body |-> ErrorJson("denied")]}
    ELSE {r \in Responses(c) : r.status \in {0, 200}}

NextDiscover ==
    \/ \E value \in Typed : Input(value)
    \/ \E t \in BagToSet(timers) : TimerFires(t)
    \/ \E genre \in Genres : GenreClick(genre)
    \/ \E which \in {"prev", "next"} : PaginationClick(which)
    \/ \E dest \in {"discover", "recommendations"} : NavClick(dest)
    \/ \E c \in Waiting : \E r \in ListResponses(c) : RespondFirst(c, r)
    \/ \E c \in Pending : Continue(c)

SpecDiscover == InitDiscover /\ [][NextDiscover]_vars

\* The same view against a catalogue that does not change: the total of a
\* query depends on its search text and its genre only, and a page past the
\* end of the result is empty.
CatalogueTotal(search, genre) ==
    IF search = "fantasy novel" THEN 0
    ELSE IF search = "fantasy" THEN 20
    ELSE IF genre = "Fantasy" THEN 21
    ELSE 45
CatalogueResponses(c) ==
    IF c.op = "loadBooks"
    THEN LET total == CatalogueTotal(c.loc.search, c.loc.genre)
         IN  {[status |-> 200,
               body |-> [typ |-> "json",
                         books |-> IF (c.loc.page - 1) * pageSize < total
                                   THEN <<1, 2>> ELSE <<>>,
                         total |-> total]]}
    ELSE {r \in Responses(c) : r.status \in {0, 200}}

NextCatalogue ==
    \/ \E value \in Typed : Input(value)
    \/ \E t \in BagToSet(timers) : TimerFires(t)
    \/ \E genre \in Genres : GenreClick(genre)
    \/ \E which \in {"prev", "next"} : PaginationClick(which)
    \/ \E dest \in {"discover", "recommendations"} : NavClick(dest)
    \/ \E c \in Waiting : \E r \in CatalogueResponses(c) : RespondFirst(c, r)
    \/ \E c \in Pending : Continue(c)

SpecCatalogue == InitDiscover /\ [][NextCatalogue]_vars

\* ------------------------------------------------------------- entry view
\* The entry view after a Logout click on the Discover view of a restored
\* session, whose list fetch is still unanswered: sign-in and registration
\* attempts, the toggle, and the network.
InitAuth ==
    LET w == logout(Entered(1, 0))
    IN  /\ token = w.token
        /\ user = w.user
        /\ currentPage = w.currentPage
        /\ page = w.page
        /\ searchQuery = w.searchQuery
        /\ genreFilter = w.genreFilter
        /\ totalBooks = w.totalBooks
        /\ timers = w.timers
        /\ localStorage = w.localStorage
        /\ navHidden = w.navHidden
        /\ app = w.app
        /\ calls = w.calls
        /\ issued = w.issued
        /\ booted = w.booted
        /\ events = w.events
        /\ sent = <<>>
        /\ toast = w.toast
        /\ act = [name |-> "Init", op |-> "", status |-> -1, detail |-> "", ok |-> FALSE]

NextAuth ==
    \/ Submit
    \/ Toggle
    \/ \E c \in Waiting : \E r \in Responses(c) : RespondFirst(c, r)
    \/ \E c \in Waiting : \E r \in Responses(c) : RespondRefresh(c, r)
    \/ \E c \in Waiting : \E r \in Responses(c) : RespondRetry(c, r)
    \/ \E c \in Pending : Continue(c)

SpecAuth == InitAuth /\ [][NextAuth]_vars

\* ------------------------------------------------------- book detail entry
\* A signed-in session on the Discover view with its list loaded and nothing
\* pending.
Browsing ==
    LET p == [sub |-> "7", role |-> "admin", username |-> "ann"]
    IN  [token |-> AccessToken(1, p),
         user |-> [user_id |-> 7, role |-> "admin", username |-> "ann"],
         currentPage |-> "discover",
         page |-> 1, searchQuery |-> "", genreFilter |-> "",
         totalBooks |-> 2, timers |-> EmptyBag,
         localStorage |-> [x \in {RefreshKey} |-> RefreshTokenValue(1, p)],
         navHidden |-> FALSE,
         app |-> [DiscoverView EXCEPT !.grid = "books", !.chips = TRUE,
                                      !.chipListeners = 1],
         calls |-> EmptyBag,
         issued |-> 1, booted |-> TRUE, events |-> 0,
         sent |-> <<>>, toast |-> Null, cur |-> Null]

\* The interaction records as the server holds them, with the time of their
\* creation: no two records of a list are created at the same time, and the
\* list is returned in any order.
MaxStamp == 3
Stamped ==
    { [book_id |-> b, interaction_type |-> tr[1], rating |-> tr[2], created_at |-> k] :
        b \in Books, tr \in {<<"like", 0>>, <<"bookmark", 0>>, <<"rate", 2>>, <<"rate", 4>>},
        k \in 1..MaxStamp }
DistinctStamps(l) == \A j, k \in 1..Len(l) : j # k => l[j].created_at # l[k].created_at
StampedLists ==
    {l \in UNION {[1..n -> Stamped] : n \in 0..MaxStamp} : DistinctStamps(l)}

\* The entry of the Book Detail view of book b, from the click on its card on.
InitFold ==
    \E b \in Books :
        LET w == navigate(Browsing, "book", b)
        IN  /\ token = w.token
            /\ user = w.user
            /\ currentPage = w.currentPage
            /\ page = w.page
            /\ searchQuery = w.searchQuery
            /\ genreFilter = w.genreFilter
            /\ totalBooks = w.totalBooks
            /\ timers = w.timers
            /\ localStorage = w.localStorage
            /\ navHidden = w.navHidden
            /\ app = w.app
            /\ calls = w.calls
            /\ issued = w.issued
            /\ booted = w.booted
            /\ events = w.events
            /\ sent = w.sent
            /\ toast = w.toast
            /\ act = [name |-> "Init", op |-> "", status |-> -1, detail |-> "", ok |-> FALSE]

\* The answers to the fetches of the entry.
FoldResponses(c) ==
    IF c.op = "interactions"
    THEN {[status |-> 200, body |-> [typ |-> "json", list |-> l]] :
             l \in StampedLists}
         \cup {[status |-> 403, body |-> ErrorJson("denied")]}
    ELSE {r \in Responses(c) : r.status \in {0, 200}}

NextFold ==
    \/ \E c \in Waiting : \E r \in FoldResponses(c) : RespondFirst(c, r)
    \/ \E c \in Pending : Continue(c)

SpecFold == InitFold /\ [][NextFold]_vars

\* ------------------------------------------------------------------ views
\* The four views of a signed-in session, from the Discover view with its
\* list loaded: the links of the navigation bar, the clicks on a book, on a
\* Discover button and on a tab of the Library, and the network.
Targets == {"discover", "recommendations", "library"}
Tabs == {"all", "like", "bookmark", "rate", "view"}
Histories == InteractionLists \cup {<<Record(2, "view", 0), Record(1, "like", 0)>>}

InitViews ==
    LET w == Browsing
    IN  /\ token = w.token
        /\ user = w.user
        /\ currentPage = w.currentPage
        /\ page = w.page
        /\ searchQuery = w.searchQuery
        /\ genreFilter = w.genreFilter
        /\ totalBooks = w.totalBooks
        /\ timers = w.timers
        /\ localStorage = w.localStorage
        /\ navHidden = w.navHidden
        /\ app = w.app
        /\ calls = w.calls
        /\ issued = w.issued
        /\ booted = w.booted
        /\ events = w.events
        /\ sent = w.sent
        /\ toast = w.toast
        /\ act = [name |-> "Init", op |-> "", status |-> -1, detail |-> "", ok |-> FALSE]

TabClick(filter) ==
    /\ Idle
    /\ app.kind = "library"
    /\ Commit(tabClick(User, filter), "TabClick", Control(filter), NoStep)

\* The answers to the fetches of the views.
ViewResponses(c) ==
    IF c.op = "library" /\ c.phase # "refresh"
    THEN {[status |-> 200, body |-> [typ |-> "json", list |-> l]] : l \in Histories}
         \cup {r \in Responses(c) : ~IsOk(r.status)}
    ELSE Responses(c)

NextViews ==
    \/ \E dest \in Targets : NavClick(dest)
    \/ \E id \in Books : BookClick(id)
    \/ DiscoverClick
    \/ \E filter \in Tabs : TabClick(filter)
    \/ \E c \in Waiting : \E r \in ViewResponses(c) : RespondFirst(c, r)
    \/ \E c \in Waiting : \E r \in ViewResponses(c) : RespondRefresh(c, r)
    \/ \E c \in Waiting : \E r \in ViewResponses(c) : RespondRetry(c, r)
    \/ \E c \in Pending : Continue(c)

SpecViews == InitViews /\ [][NextViews]_vars

\* The same run with fewer answers (a success, a refusal with a detail, a
\* transport failure and, for the primary load of a view, a 401), under the assumption that every fetch
\* is answered or fails and that a settled promise runs its reactions: the
\* steps of the network and of the continuations are taken when they stay
\* possible.  Nothing obliges the user to click.
LoadOps == {"loadBooks", "book", "recommendations", "library"}
LiveResponses(c) ==
    {r \in ViewResponses(c) :
        \/ IsOk(r.status)
        \/ r = NetworkFailure
        \/ r.status = 403 /\ r.body = ErrorJson("denied")
        \/ r.status = 401 /\ r.body = Unparseable /\ c.op \in LoadOps}

Network ==
    \/ \E c \in Waiting : \E r \in LiveResponses(c) : RespondFirst(c, r)
    \/ \E c \in Waiting : \E r \in LiveResponses(c) : RespondRefresh(c, r)
    \/ \E c \in Waiting : \E r \in LiveResponses(c) : RespondRetry(c, r)
    \/ \E c \in Pending : Continue(c)

NextViewsLive ==
    \/ \E dest \in Targets : NavClick(dest)
    \/ \E id \in Books : BookClick(id)
    \/ DiscoverClick
    \/ \E filter \in Tabs : TabClick(filter)
    \/ Network

SpecViewsLive == InitViews /\ [][NextViewsLive]_vars /\ WF_vars(Network)

\* ------------------------------------------------------------------ claims
Returned == {c \in Pending : c.phase = "returned"}
AuthExpired == "Session expired"
Stored == getItem(localStorage, RefreshKey)

\* C1: one call of api.request issues at most one refresh and sends the
\* original request at most twice; once the retry has been answered, whatever
\* the answer (a 401 included), the call returns without any further fetch.
C1_AtMostOneRefreshOneRetry ==
    /\ \A c \in Pending :
          c.op # "restore" =>
             /\ c.refreshes <= 1
             /\ c.sends <= 2
             /\ c.phase = "refresh" => c.sends = 1 /\ c.refreshes = 1
             /\ c.phase = "retry" => c.sends = 2 /\ c.refreshes = 1
    /\ act.name = "RespondRetry" =>
          /\ sent = <<>>
          /\ \E c \in Returned : c.op = act.op /\ c.sends = 2 /\ c.refreshes = 1

\* A retry answered 401 a second time has returned to its caller.
C1_Witness ==
    /\ act.name = "RespondRetry" /\ act.status = 401
    /\ \E c \in Returned : c.sends = 2 /\ c.refreshes = 1 /\ ~c.result.ok

\* C2: when a request got 401 and the refresh attempt failed (no durable
\* token, a refresh answered non-2xx or unparseably, a transport error), at
\* the return of the call the access token and the identity are absent, the
\* durable token is removed, the entry view is shown, the request was sent
\* only once, and the call fails with 'Session expired'.
RefreshFailedNow ==
    \/ act.name = "RespondFirst" /\ act.status = 401
    \/ act.name = "RespondRefresh"
C2_RefreshFailureTearsDown ==
    \A c \in Returned :
        RefreshFailedNow =>
            /\ token = Null
            /\ user = Null
            /\ Stored = Null
            /\ RefreshKey \notin DOMAIN localStorage
            /\ app = AuthView
            /\ navHidden
            /\ c.sends = 1
            /\ c.result = Err(AuthExpired)
            /\ sent = <<>>

\* A refresh that met a transport error, for a request sent with a token.
C2_Witness ==
    /\ act.name = "RespondRefresh" /\ act.status = 0
    /\ \E c \in Returned : c.auth # Null /\ c.refreshes = 1

\* C3: when a request got 401, the refresh succeeded and the retried request
\* is answered non-2xx, the session is torn down as by logout() and the call
\* fails with 'Session expired'.  (The code throws the retry's own error and
\* leaves the refreshed session in place.)
C3_RetryFailureTearsDown ==
    \A c \in Returned :
        (act.name = "RespondRetry" /\ act.status \in ErrStatuses) =>
            /\ token = Null
            /\ user = Null
            /\ Stored = Null
            /\ app = AuthView
            /\ navHidden
            /\ c.result = Err(AuthExpired)

\* C4: a request leaving api.request while state.token is set carries the
\* header Bearer <state.token at that moment>; the retry after a refresh
\* carries the token that refresh has just obtained, which differs from the
\* header of the send that was answered 401.
IsFresh(tok) == tok # Null /\ tok.n = issued
C4_BearerIsCurrentToken ==
    \A k \in 1..Len(sent) :
        LET f == sent[k]
        IN  /\ f.kind \in {"request", "retry"} =>
                /\ f.tok = token
                /\ f.tok # Null => f.auth = Bearer(f.tok)
                /\ f.tok = Null /\ f.kind = "request" => f.auth = Null
            /\ f.kind = "retry" =>
                /\ act.name = "RespondRefresh"
                /\ IsFresh(f.tok)
                /\ f.auth = Bearer(token)
                /\ f.auth # f.prev

\* A retry leaves for a request that had been sent with an older token.
C4_Witness ==
    \E k \in 1..Len(sent) :
        /\ sent[k].kind = "retry"
        /\ sent[k].prev # Null
        /\ sent[k].auth = Bearer(token)

\* C5: a non-2xx response other than 401 to the first send makes the call fail
\* with the server's detail, or 'Error <status>' when there is none; the step
\* sends nothing (no refresh, no retry) and leaves the access token, the
\* identity and the durable storage as they were.
Rejected(step) == step.name = "RespondFirst" /\ step.status \notin {-1, 0, 401}
                     /\ ~IsOk(step.status)
C5_RejectionIsFinal ==
    [][Rejected(act') =>
          /\ sent' = <<>>
          /\ token' = token
          /\ user' = user
          /\ localStorage' = localStorage
          /\ app' = app /\ navHidden' = navHidden
          /\ \E c \in BagToSet(calls') :
                /\ c.phase = "returned" /\ c.op = act'.op
                /\ c.refreshes = 0 /\ c.sends = 1
                /\ ~c.result.ok
                /\ c.result.msg = IF act'.detail # "" THEN act'.detail
                                  ELSE "Error " \o ToString(act'.status)]_vars

\* A 403 answered to a request of a signed-in session, without a detail.
C5_Witness ==
    /\ act.name = "RespondFirst" /\ act.status = 403 /\ act.detail = ""
    /\ token # Null /\ Stored # Null /\ user # Null
    /\ \E c \in Returned : c.result.msg = "Error 403"

\* C6: the late response of a superseded view never changes what is shown:
\* when the closure of renderBookDetail resumes after #app has been given to
\* another view by a navigation, it leaves #app as it is.  (The code writes
\* the detail or the not-found markup without asking whether the view is
\* still current.)
C6_LateResponseKeepsView ==
    [][\A c \in Returned :
          (/\ act'.name = "Continue"
           /\ c.op \in {"book", "interactions", "view"}
           /\ ~c.live
           /\ app.kind # "auth") => app' = app]_vars

\* C7: logout() leaves the access token and the identity absent, the durable
\* refresh token removed, the navigation hidden and the entry view shown; from
\* every reachable state, logout() twice gives the state logout() once gives,
\* and the state a logout click has left is a fixed point of logout().
LoggedOut(w) ==
    /\ w.token = Null
    /\ w.user = Null
    /\ RefreshKey \notin DOMAIN w.localStorage
    /\ getItem(w.localStorage, RefreshKey) = Null
    /\ w.navHidden
    /\ w.app = AuthView
    /\ w.currentPage = currentPage
    /\ \A c \in BagToSet(w.calls) : ~c.live
C7_LogoutClearsAndIsIdempotent ==
    /\ LoggedOut(logout(World))
    /\ logout(logout(World)) = logout(World)
    /\ act.name = "LogoutClick" => LoggedOut(World) /\ logout(World) = World

\* A logout click on a signed-in session with a load still pending.
C7_Witness ==
    /\ act.name = "LogoutClick"
    /\ calls # EmptyBag
    /\ issued > 0

\* C8: when login or register resumes with a 2xx answer {access_token,
\* refresh_token}, state.token is access_token, the durable refresh token is
\* refresh_token, the identity is the one the claims of access_token give
\* (for a token that decodes), the navigation is shown, the page is Discover
\* and its list load has left with the new token.
ExpectedIdentity(p) ==
    CASE p.sub = "7" -> [user_id |-> 7, role |-> "admin", username |-> "ann"]
      [] p.sub = "8" -> [user_id |-> 8, role |-> "user", username |-> "User 8"]
AuthSucceeded(step) == step.name = "Continue" /\ step.op \in {"login", "register"} /\ step.ok
C8_AuthSuccessOpensDiscover ==
    [][\A c \in Returned :
          AuthSucceeded(act') =>
             LET data == c.result.data
             IN  /\ token' = data.access_token
                 /\ getItem(localStorage', RefreshKey) = data.refresh_token
                 /\ data.access_token.payload # Garbage =>
                       user' = ExpectedIdentity(data.access_token.payload)
                 /\ ~navHidden'
                 /\ currentPage' = "discover"
                 /\ app'.kind = "discover" /\ app'.grid = "skeleton"
                 /\ Len(sent') = 1
                 /\ sent'[1].kind = "request" /\ sent'[1].op = "loadBooks"
                 /\ sent'[1].auth = Bearer(data.access_token)
                 /\ \E l \in BagToSet(calls') :
                       l.op = "loadBooks" /\ l.phase = "first" /\ l.live]_vars

\* A successful login has resumed, with a token whose claims carry no username.
C8_Witness ==
    /\ act.name = "Continue" /\ act.op = "login" /\ act.ok
    /\ user # Null /\ user.username = "User 8"
    /\ currentPage = "discover"

\* C9: when the server rejects a login or register call, with any status, the
\* call fails with the server's message and not with 'Session expired', the
\* message is visible in the form that is shown, whose submit control is
\* enabled again, the access token stays absent and the storage is untouched.
\* (A 401 answer enters the refresh protocol: logout() replaces the form and
\* the caller gets 'Session expired', which it writes into the old form.)
RejectedBy(step) == step.name \in {"RespondFirst", "RespondRetry"}
                       /\ step.status \in ErrStatuses
C9_AuthRejectionShown ==
    [][\A c \in Returned :
          (/\ act'.name = "Continue"
           /\ c.op \in {"login", "register"}
           /\ RejectedBy(act)) =>
              /\ c.result.msg # AuthExpired
              /\ act.detail # "" => c.result.msg = act.detail
              /\ app'.kind = "auth"
              /\ app'.errorVisible
              /\ app'.errorText = c.result.msg
              /\ ~app'.disabled
              /\ token' = Null
              /\ localStorage' = localStorage]_vars

\* C10: init() without a durable refresh token sends nothing and shows the
\* entry view; with one it sends exactly one refresh, carrying that token, and
\* nothing else until the answer; on success the session is set (token from the
\* answer, identity from its claims when they decode, navigation shown) and
\* Discover is entered; on failure the entry view is shown with no error and
\* no toast, and nothing is sent.
RestoreResumed(step) == step.name = "Continue" /\ step.op = "restore"
C10_Startup ==
    [][/\ act'.name = "Boot" =>
            IF Stored = Null
            THEN /\ sent' = <<>> /\ calls' = EmptyBag
                 /\ app' = AuthView /\ navHidden'
                 /\ token' = Null /\ user' = Null
            ELSE /\ Len(sent') = 1
                 /\ sent'[1].kind = "refresh"
                 /\ sent'[1].body = [refresh_token |-> Stored]
                 /\ BagCardinality(calls') = 1
                 /\ app' = BlankView
       /\ act'.name = "RespondRestore" => sent' = <<>>
       /\ \A c \in Returned :
            RestoreResumed(act') =>
               /\ c.refreshes = 1 /\ c.sends = 0
               /\ IF act'.ok
                  THEN /\ token' = token /\ token # Null /\ token.n = 1
                       /\ getItem(localStorage', RefreshKey) = RefreshTokenValue(1, token.payload)
                       /\ token.payload # Garbage => user' = ExpectedIdentity(token.payload)
                       /\ ~navHidden'
                       /\ currentPage' = "discover"
                       /\ app'.kind = "discover"
                       /\ Len(sent') = 1 /\ sent'[1].op = "loadBooks"
                       /\ sent'[1].auth = Bearer(token)
                  ELSE /\ token' = Null /\ user' = Null
                       /\ navHidden'
                       /\ app' = AuthView /\ ~app'.errorVisible
                       /\ toast' = Null
                       /\ sent' = <<>>]_vars

\* A restored session has entered Discover with its identity.
C10_Witness ==
    /\ act.name = "Continue" /\ act.op = "restore" /\ act.ok
    /\ app.kind = "discover" /\ user # Null /\ token # Null

\* C11: the detail of a fetched book is rendered without waiting for the
\* 'view' POST: while that POST is in flight for the entry whose markup is
\* in #app, #app already shows the book.  (The code awaits the POST before it
\* writes the detail markup; until the POST is answered the spinner stays.)
C11_DetailDoesNotWaitForView ==
    \A c \in Waiting : (c.op = "view" /\ c.live) => app.kind = "detail"

\* C12: a click on book b sends GET /books/b alone; when it succeeds the
\* interactions fetch leaves, and whatever its outcome the view POST for b
\* leaves next; whatever the outcome of that POST the book is rendered, with
\* the entry folded from the interactions, which is the default entry
\* {liked: false, bookmarked: false, rating: 0} when their fetch had failed.
Resumed(step, op) == step.name = "Continue" /\ step.op = op
OnlySent(s, op, b) == Len(s) = 1 /\ s[1].kind = "request" /\ s[1].op = op /\ s[1].arg = b
C12_BookRendersDespiteFailures ==
    [][/\ act'.name = "BookClick" =>
             \E b \in Books : OnlySent(sent', "book", b) /\ app' = DetailLoadingView
       /\ \A c \in Returned :
           /\ (Resumed(act', "book") /\ act'.ok) =>
                 /\ OnlySent(sent', "interactions", c.arg)
                 /\ c.result.data.id = c.arg
           /\ Resumed(act', "interactions") =>
                 /\ OnlySent(sent', "view", c.arg)
                 /\ \E v \in BagToSet(calls') :
                       /\ v.op = "view" /\ v.phase = "first" /\ v.loc.book = c.loc.book
                       /\ ~act'.ok => v.loc.entry = DefaultEntry
           /\ Resumed(act', "view") =>
                 /\ app'.kind = "detail"
                 /\ app'.book = c.loc.book /\ app'.book = c.arg
                 /\ app'.liked = c.loc.entry.liked
                 /\ app'.bookmarked = c.loc.entry.bookmarked
                 /\ app'.rating = c.loc.entry.rating]_vars

\* The view POST has failed and the book is shown with the default entry.
C12_Witness ==
    /\ act.name = "Continue" /\ act.op = "view" /\ ~act.ok
    /\ app.kind = "detail"
    /\ ~app.liked /\ ~app.bookmarked /\ app.rating = 0

\* C19: the durable storage holds nothing but the value under 'mg_refresh';
\* that value is a refresh token, never an access token, and, no call being
\* about to resume, it is the old token of an earlier page load while the
\* server has issued none, and the token of the latest pair issued otherwise.
\* The storage is written only by a successful refresh and by a successful
\* login or register, and emptied only by logout (a click, or the teardown
\* of a request whose refresh failed).
StorageWell ==
    /\ DOMAIN localStorage \subseteq {RefreshKey}
    /\ Stored # Null =>
          /\ Stored.typ = "refresh"
          /\ Quiet => Stored.n = issued
WritesStorage(step) ==
    \/ step.name \in {"RespondRefresh", "RespondRestore"} /\ IsOk(step.status)
    \/ step.name = "Continue" /\ step.op \in {"login", "register"} /\ step.ok
ClearsStorage(step) ==
    \/ step.name = "LogoutClick"
    \/ step.name = "RespondRefresh" /\ ~IsOk(step.status)
C19_DurableStorage ==
    /\ []StorageWell
    /\ [][localStorage' # localStorage =>
             IF RefreshKey \in DOMAIN localStorage'
             THEN WritesStorage(act')
             ELSE ClearsStorage(act')]_vars

\* A registration has stored the refresh token of its pair over an old one.
C19_Witness ==
    /\ act.name = "Continue" /\ act.op = "register" /\ act.ok
    /\ Stored # Null /\ Stored.n = 2 /\ token.n = 2

\* C20: one call of api.request causes at most two network calls, counting
\* the original request, the refresh and the retry.  (A 401 followed by a
\* successful refresh gives three: request, refresh, retry.)
C20_AtMostTwoRoundTrips ==
    \A c \in Pending : c.op # "restore" => c.sends + c.refreshes <= 2

\* C16: in a Book Detail view whose Like (Bookmark) button is active, from the
\* fold at entry or from a confirmed write, a click on it sends nothing and
\* changes nothing of the session, the view and the pending calls.
Untouched ==
    /\ token' = token /\ user' = user /\ localStorage' = localStorage
    /\ currentPage' = currentPage /\ navHidden' = navHidden
    /\ app' = app /\ calls' = calls /\ toast' = Null
C16_ActiveClickIsNoOp ==
    [][/\ (act'.name = "LikeClick" /\ app.liked) => sent' = <<>> /\ Untouched
       /\ (act'.name = "BookmarkClick" /\ app.bookmarked) => sent' = <<>> /\ Untouched
       /\ (act'.name = "LikeClick" /\ ~app.liked) => OnlySent(sent', "like", app.book)
       /\ (act'.name = "BookmarkClick" /\ ~app.bookmarked) =>
              OnlySent(sent', "bookmark", app.book)]_vars

\* Clicks on buttons made active by a confirmed write: book 1 is bookmarked
\* in no interaction list the entry can fold.
C16_Witness ==
    /\ act.name = "BookmarkClick" /\ sent = <<>>
    /\ app.kind = "detail" /\ app.book = 1 /\ app.bookmarked

\* C17: in a Book Detail view the displayed like, bookmark and rating change
\* only when a like, bookmark or rate write for the view's book resumes with
\* a 2xx answer, and then to what that write asked for; a write that failed
\* leaves the view as it is and shows an error toast with the error's message.
Writes == {"like", "bookmark", "rate"}
Shown(v) == <<v.liked, v.bookmarked, v.rating, v.currentRating>>
Confirmed(v, c) ==
    CASE c.op = "like" -> [v EXCEPT !.liked = TRUE]
      [] c.op = "bookmark" -> [v EXCEPT !.bookmarked = TRUE]
      [] c.op = "rate" -> [v EXCEPT !.rating = c.loc.val, !.currentRating = c.loc.val]
C17_DisplayedOnlyIfConfirmed ==
    [][/\ (app.kind = "detail" /\ app'.kind = "detail" /\ Shown(app') # Shown(app)) =>
              \E c \in Returned :
                  /\ act'.name = "Continue" /\ c.op \in Writes
                  /\ c.result.ok /\ act.status \in 200..299
                  /\ c.live /\ c.arg = app.book
                  /\ app' = Confirmed(app, c)
                  /\ toast'.type = "success"
       /\ \A c \in Returned :
              (act'.name = "Continue" /\ c.op \in Writes /\ ~c.result.ok) =>
                  /\ app' = app
                  /\ toast' = [type |-> "error", msg |-> c.result.msg]
                  /\ sent' = <<>>]_vars

\* A rate write was refused: the stars are as they were and an error is shown.
C17_Witness ==
    /\ act.name = "Continue" /\ act.op = "rate" /\ ~act.ok
    /\ app.kind = "detail" /\ app.rating = 4 /\ app.currentRating = 4
    /\ toast # Null /\ toast.type = "error" /\ toast.msg = "denied"

\* C18: two clicks in a row on the same star send one rate write, the first
\* click's: the second click sends nothing.  (The handler compares with
\* currentRating, which changes only when the first write is confirmed: a
\* second click made before that sends the same write again.)
C18_SecondStarClickSendsNothing ==
    [][(/\ act.name = "StarClick" /\ act'.name = "StarClick"
        /\ sent # <<>> /\ sent' # <<>>) => sent'[1].body # sent[1].body]_vars

\* C13: the step in which a debounce timer fires (searchQuery changes) or a
\* genre chip is clicked (genreFilter changes) leaves state.page at 1, and
\* every GET /books it sends carries page 1 with the new query and genre;
\* it sends one whenever the Discover view is in #app.  searchQuery and
\* genreFilter change in no other step, and every list fetch carries the
\* state.page of the moment it leaves.
QueryChange(step) == step.name \in {"TimerFires", "GenreClick"}
ListFetches(s) == {k \in 1..Len(s) : s[k].op = "loadBooks"}
C13_QueryChangeResetsPage ==
    [][/\ QueryChange(act') =>
             /\ page' = 1
             /\ \A k \in 1..Len(sent') :
                   /\ sent'[k].op = "loadBooks"
                   /\ sent'[k].body = [page |-> 1, search |-> searchQuery',
                                       genre |-> genreFilter']
             /\ app.kind = "discover" => Len(sent') >= 1
       /\ (searchQuery' # searchQuery \/ genreFilter' # genreFilter) => QueryChange(act')
       /\ \A k \in ListFetches(sent') : sent'[k].body.page = page']_vars

\* A genre chip was clicked on page 3 of 3 and the list is fetched from page 1.
C13_Witness ==
    /\ act.name = "GenreClick"
    /\ app.kind = "discover" /\ app.pagination.present /\ app.pagination.page = 3
    /\ genreFilter = "Fantasy" /\ page = 1
    /\ Len(sent) = 1 /\ sent[1].body.page = 1 /\ sent[1].body.genre = "Fantasy"

\* C14: the Discover view in #app has at most one search timer pending, and
\* it stands for the value now in the search box; an input event sends
\* nothing, leaves searchQuery and page alone, clears that timer and arms one
\* for the new value; when the timer of the view fires, one list fetch leaves
\* with the trimmed value of the last keystroke, and searchQuery changes in no
\* other step.
LiveTimers(B) == {t \in BagToSet(B) : t.live}
DeadTimers(B) == [t \in BagToSet(B) \ LiveTimers(B) |-> B[t]]
OneTimerPerView ==
    \A t \in LiveTimers(timers) :
        /\ LiveTimers(timers) = {t}
        /\ timers[t] = 1
        /\ app.kind = "discover" /\ t.value = app.input
C14_SearchDebounce ==
    /\ []OneTimerPerView
    /\ [][/\ act'.name = "Input" =>
                /\ sent' = <<>>
                /\ searchQuery' = searchQuery /\ page' = page
                /\ LiveTimers(timers') = {Timer(app'.input)}
                /\ DeadTimers(timers') = DeadTimers(timers)
          /\ (act'.name = "TimerFires" /\ LiveTimers(timers) # {}
                /\ LiveTimers(timers') = {}) =>
                /\ searchQuery' = Trim(app.input)
                /\ Len(sent') = 1
                /\ sent'[1].op = "loadBooks"
                /\ sent'[1].body.search = Trim(app.input)
          /\ searchQuery' # searchQuery => act'.name = "TimerFires"
          /\ \A k \in ListFetches(sent') : sent'[k].body.search = searchQuery']_vars

\* Two keystrokes, then the timer: the one fetch carries the second value.
C14_Witness ==
    /\ act.name = "TimerFires" /\ events = 2
    /\ timers = EmptyBag
    /\ searchQuery = "fantasy novel"
    /\ Len(sent) = 1 /\ sent[1].body.search = "fantasy novel"

\* C15: for every total and page, renderPagination gives ceil(total /
\* pageSize) pages, no control for one page or none, Previous disabled
\* exactly on page <= 1 and Next exactly on page >= totalPages (45 books: 3
\* pages, Next disabled on page 3, Previous on page 1); the markup a list
\* load leaves is the one of state.totalBooks and state.page; a click on a
\* disabled button changes nothing and sends nothing, a click on an enabled
\* one sets state.page to its data-page.
MaxTotal == 61
MaxPage == 4
IsCeil(k, total) == k * pageSize >= total /\ (k - 1) * pageSize < total
PaginationRight(total, pg) ==
    LET pag == Pagination(total, pg)
    IN  IF \E k \in 0..1 : IsCeil(k, total)
        THEN ~pag.present
        ELSE /\ pag.present
             /\ IsCeil(pag.totalPages, total)
             /\ pag.prevDisabled <=> pg <= 1
             /\ pag.nextDisabled <=> pg >= pag.totalPages
             /\ pag.prevPage = pg - 1 /\ pag.nextPage = pg + 1
PaginationFacts ==
    /\ \A total \in 0..MaxTotal : \A pg \in 1..MaxPage : PaginationRight(total, pg)
    /\ Pagination(45, 3).totalPages = 3
    /\ Pagination(45, 3).nextDisabled /\ ~Pagination(45, 3).prevDisabled
    /\ Pagination(45, 1).prevDisabled /\ ~Pagination(45, 1).nextDisabled
ClickedDisabled(step, pag) ==
    /\ step.name = "PaginationClick"
    /\ IF step.op = "prev" THEN pag.prevDisabled ELSE pag.nextDisabled
C15_Pagination ==
    /\ []PaginationFacts
    /\ [][/\ (Resumed(act', "loadBooks") /\ act'.ok /\ app'.kind = "discover") =>
                /\ app'.pagination = Pagination(totalBooks', page')
                /\ PaginationRight(totalBooks', page')
          /\ ClickedDisabled(act', app.pagination) =>
                /\ sent' = <<>> /\ page' = page
                /\ app' = app /\ calls' = calls
          /\ (act'.name = "PaginationClick" /\ ~ClickedDisabled(act', app.pagination)) =>
                /\ page' = IF act'.op = "prev" THEN app.pagination.prevPage
                           ELSE app.pagination.nextPage
                /\ Len(sent') >= 1]_vars

\* Next was clicked on page 3 of 3, where it is disabled.
C15_Witness ==
    /\ act.name = "PaginationClick" /\ act.op = "next"
    /\ app.kind = "discover" /\ app.pagination.present
    /\ app.pagination.page = 3 /\ app.pagination.totalPages = 3
    /\ app.pagination.nextDisabled
    /\ sent = <<>> /\ page = 3

\* C24: every request answered 401 while a durable refresh token is stored
\* sends a refresh of its own, carrying the stored token, whether or not the
\* refresh of another request is outstanding: the refreshes in flight grow by
\* one, and two of them can carry the same durable token at the same time.
InRefresh(B) == [c \in {x \in BagToSet(B) : x.phase = "refresh"} |-> B[c]]
C24_IndependentRefresh ==
    [][(act'.name = "RespondFirst" /\ act'.status = 401 /\ Stored # Null) =>
          /\ Len(sent') = 1
          /\ sent'[1].kind = "refresh"
          /\ sent'[1].body = [refresh_token |-> Stored]
          /\ BagCardinality(InRefresh(calls')) = BagCardinality(InRefresh(calls)) + 1
          /\ \A c \in BagToSet(InRefresh(calls)) : c \in BagToSet(calls')]_vars

\* Two requests answered 401 have each a refresh outstanding, both carrying
\* the durable token that is stored.
C24_Witness ==
    /\ act.name = "RespondFirst" /\ act.status = 401
    /\ BagCardinality(InRefresh(calls)) = 2
    /\ \A c \in BagToSet(InRefresh(calls)) : c.op # "restore" /\ c.rt = Stored

\* C25: a protected request (any but login and register) made while the
\* in-memory access token is absent is not sent to its endpoint before a
\* restoration through the durable refresh token has been attempted: no first
\* send of a protected request leaves while state.token is null.  (The code
\* sends the request without an Authorization header and refreshes only once
\* the server has answered 401.)
Protected(f) == f.op \notin {"login", "register", "restore"}
C25_RestoreBeforeProtectedSend ==
    \A k \in 1..Len(sent) :
        (sent[k].kind = "request" /\ Protected(sent[k])) => sent[k].tok # Null

\* C30: when the payload of the access token cannot be decoded, the login,
\* register or restore that called decodeAndSetUser still completes: the
\* identity is unset, the navigation is shown, Discover is entered and its
\* list fetch leaves, and the access token and the durable refresh token of
\* the answer are stored.  (decodeAndSetUser leaves state.user as it was:
\* the identity a sign-in answered earlier has set stays.)
SignedIn(step) ==
    step.name = "Continue" /\ step.op \in {"login", "register", "restore"} /\ step.ok
C30_UndecodableTokenLeavesIdentityUnset ==
    (SignedIn(act) /\ token # Null /\ token.payload = Garbage) =>
        /\ user = Null
        /\ ~navHidden
        /\ currentPage = "discover" /\ app.kind = "discover"
        /\ Len(sent) = 1 /\ sent[1].op = "loadBooks" /\ sent[1].auth = Bearer(token)
        /\ Stored = RefreshTokenValue(token.n, Garbage)

\* C26: the query of the list is created anew by every entry of the Discover
\* view: the list fetch that navigate('discover') sends asks for page 1 with
\* no search query and no genre filter, whatever an earlier visit or an
\* earlier session has left.  (state.page, state.searchQuery and
\* state.genreFilter are assigned by the handlers of the view only; neither
\* navigate nor renderDiscover nor logout resets them.)
EntersDiscover(step) ==
    \/ step.name \in {"NavClick", "DiscoverClick"}
    \/ step.name = "Continue" /\ step.op \in {"login", "register", "restore"} /\ step.ok
C26_FreshQueryOnEntry ==
    (EntersDiscover(act) /\ currentPage = "discover") =>
        /\ Len(sent) = 1
        /\ sent[1].op = "loadBooks"
        /\ sent[1].body = [page |-> 1, search |-> "", genre |-> ""]

\* C27: whatever the order of the records in the list answered at the entry of
\* the Book Detail view of a book, the entry folded from it has liked true
\* exactly when the list holds a 'like' record of the book, bookmarked true
\* exactly when it holds a 'bookmark' record of the book, and as rating the
\* rating of the 'rate' record of the book created last, 0 when there is
\* none.  (The fold keeps the rating of the 'rate' record that comes last in
\* the list.)
Has(l, b, type) ==
    \E k \in 1..Len(l) : l[k].book_id = b /\ l[k].interaction_type = type
Rates(l, b) == {k \in 1..Len(l) : l[k].book_id = b /\ l[k].interaction_type = "rate"}
LatestRating(l, b) ==
    IF Rates(l, b) = {} THEN 0
    ELSE l[CHOOSE k \in Rates(l, b) :
              \A j \in Rates(l, b) : l[j].created_at <= l[k].created_at].rating
C27_FoldedEntry ==
    [][\A c \in Returned :
          (Resumed(act', "interactions") /\ act'.ok) =>
              \E v \in BagToSet(calls') :
                  /\ v.op = "view" /\ v.arg = c.arg
                  /\ v.loc.entry =
                        [liked |-> Has(c.result.data.list, c.arg, "like"),
                         bookmarked |-> Has(c.result.data.list, c.arg, "bookmark"),
                         rating |-> LatestRating(c.result.data.list, c.arg)]]_vars

\* C28: within a Book Detail view the Like and the Bookmark button never go
\* from active back to inactive, and no fetch that leaves is a DELETE: a like
\* or a bookmark is never removed.
C28_LikeBookmarkOneWay ==
    [][/\ (app.kind = "detail" /\ app'.kind = "detail" /\ ~Resumed(act', "view")) =>
              /\ app.liked => app'.liked
              /\ app.bookmarked => app'.bookmarked
       /\ \A k \in 1..Len(sent') :
              /\ sent'[k].method \in {"GET", "POST"}
              /\ sent'[k].op \in {"like", "bookmark"} =>
                    /\ sent'[k].method = "POST"
                    /\ sent'[k].kind = "request" =>
                          sent'[k].body = [book_id |-> sent'[k].arg,
                                           interaction_type |-> sent'[k].op]]_vars

\* The Like button is active by a confirmed write while a second like write,
\* sent before that confirmation, is about to be confirmed on the same button.
C28_Witness ==
    /\ app.kind = "detail" /\ app.liked
    /\ \E c \in Returned : c.op = "like" /\ c.result.ok /\ c.live /\ c.arg = app.book

\* C29: the history is fetched once per entry of the Library view, by the
\* entry and by nothing else; a click on a tab sends no fetch of the history,
\* makes the tab the active filter and lists exactly the records of the
\* history the view has fetched whose type is the filter (all of them for
\* 'all'), in their order; the fetch that succeeds for the view in #app lists
\* the fetched records under the filter active then.
Matching(l, filter) ==
    SelectSeq(l, LAMBDA i : filter = "all" \/ i.interaction_type = filter)
HistoryFetches(s) == {k \in 1..Len(s) : s[k].op = "library" /\ s[k].kind = "request"}
Lists(v, l) ==
    IF l = <<>>
    THEN v.content = "empty" /\ v.items = <<>>
    ELSE v.content = "list" /\ v.items = l
C29_HistoryFetchedOnce ==
    [][/\ (act'.name = "NavClick" /\ act'.op = "library") =>
              Len(sent') = 1 /\ HistoryFetches(sent') = {1}
       /\ HistoryFetches(sent') # {} => (act'.name = "NavClick" /\ act'.op = "library")
       /\ act'.name = "TabClick" =>
              /\ \A k \in 1..Len(sent') : sent'[k].op = "enrich"
              /\ app'.activeFilter = act'.op
              /\ app'.allInteractions = app.allInteractions
              /\ Lists(app', Matching(app.allInteractions, act'.op))
       /\ \A c \in Returned :
              (Resumed(act', "library") /\ act'.ok /\ c.live) =>
                  /\ app'.allInteractions = c.result.data.list
                  /\ app'.activeFilter = app.activeFilter
                  /\ Lists(app', Matching(c.result.data.list, app.activeFilter))]_vars

\* The tab Rated lists the two ratings of a fetched history of three records.
C29_Witness ==
    /\ act.name = "TabClick" /\ act.op = "rate"
    /\ app.kind = "library" /\ app.content = "list"
    /\ Len(app.allInteractions) = 3 /\ Len(app.items) = 2
    /\ \A k \in 1..Len(app.items) : app.items[k].interaction_type = "rate"

\* C21: navigate(target), for target discover, book, recommendations or
\* library, makes target the active page, writes the fresh markup of its view
\* and sends exactly one fetch, the initial load of that view, also when
\* target is the page already active; the page left is recorded nowhere:
\* besides the active page, the markup and the pending calls nothing of the
\* state changes.
Navigated(step) == step.name \in {"NavClick", "BookClick", "DiscoverClick"}
Target(step) ==
    CASE step.name = "NavClick" -> step.op
      [] step.name = "BookClick" -> "book"
      [] step.name = "DiscoverClick" -> "discover"
InitialLoad(dest) == IF dest = "discover" THEN "loadBooks" ELSE dest
Fresh(dest, v) ==
    CASE dest = "discover" ->
            v = [DiscoverView EXCEPT !.grid = "skeleton", !.input = searchQuery]
      [] dest = "book" -> v = DetailLoadingView
      [] dest = "recommendations" -> v = RecommendationsView
      [] dest = "library" -> v = LibraryView
C21_NavigateLoadsOnce ==
    [][Navigated(act') =>
          /\ currentPage' = Target(act')
          /\ Fresh(Target(act'), app')
          /\ Len(sent') = 1
          /\ sent'[1].kind = "request" /\ sent'[1].op = InitialLoad(Target(act'))
          /\ BagCardinality(calls') = BagCardinality(calls) + 1
          /\ \E c \in BagToSet(calls') :
                /\ c.live /\ c.op = InitialLoad(Target(act')) /\ c.phase = "first"
                /\ calls'[c] = 1
                /\ \A o \in BagToSet(calls') : o.live => o = c
          /\ UNCHANGED <<token, user, page, searchQuery, genreFilter, totalBooks,
                         localStorage, navHidden, issued, booted>>]_vars

\* The Library link was clicked twice in a row: the history fetch of the
\* first entry is still pending for a markup that is gone, the second entry
\* has sent its own.
C21_Witness ==
    /\ act.name = "NavClick" /\ act.op = "library" /\ events = 2
    /\ currentPage = "library" /\ app = LibraryView
    /\ \E c \in Pending : c.op = "library" /\ ~c.live
    /\ \E c \in Pending : c.op = "library" /\ c.live /\ c.phase = "first"

\* C23: a best-effort call (the 'view' POST, the fetch of the similar books,
\* the fetch of a title for the Library rows) that fails, whatever the
\* failure, a 401 whose refresh fails included, shows no toast and leaves the
\* markup in #app as it is when api.request gives up; its caller then writes
\* nothing but the neutral fallback: the book is rendered after a failed
\* 'view' POST, the guidance text replaces the similar books, the row keeps
\* its placeholder title.  (A 401 whose refresh fails runs logout() inside
\* api.request, which replaces the view by the entry form.)
BestEffort == {"view", "similar", "enrich"}
GaveUp(step) ==
    /\ step.name \in {"RespondFirst", "RespondRefresh", "RespondRetry"}
    /\ step.op \in BestEffort
C23_BestEffortFailureIsSilent ==
    [][/\ (GaveUp(act') /\ \E c \in BagToSet(calls') : c.phase = "returned" /\ ~c.result.ok) =>
              /\ toast' = Null
              /\ app' = app
       /\ \A c \in Returned :
              (act'.name = "Continue" /\ c.op \in BestEffort /\ ~c.result.ok /\ c.live) =>
                  /\ toast' = Null
                  /\ c.op = "view" => app'.kind = "detail" /\ app'.book = c.arg
                  /\ c.op = "similar" => app' = [app EXCEPT !.similar = "later"]
                  /\ c.op = "enrich" => app' = app]_vars

\* C22: when the primary load of a view (the list of books, the book, the
\* recommendations, the history) resumes while the markup of its view is in
\* #app, a failed load ends in the error affordance of the view with the
\* message raised, never in the empty-result affordance nor in the loading
\* placeholder; a load that succeeded ends in the content, or in the
\* empty-result affordance when there is nothing to list (the book goes on to
\* the fetches of its entry).  A loading placeholder never stays for ever.
Loading ==
    \/ app.kind = "discover" /\ app.grid = "skeleton"
    \/ app = DetailLoadingView
    \/ app.kind \in {"recommendations", "library"} /\ app.content = "loading"
ErrorShown(c, v) ==
    CASE c.op = "loadBooks" -> v.kind = "discover" /\ v.grid = "error" /\ v.gridMsg = c.result.msg
      [] c.op = "book" -> v = NotFoundView(c.result.msg)
      [] c.op \in {"recommendations", "library"} ->
            v.kind = c.op /\ v.content = "error" /\ v.msg = c.result.msg
ContentShown(c, v) ==
    CASE c.op = "loadBooks" ->
            v.kind = "discover"
            /\ v.grid = (IF c.result.data.books = <<>> THEN "empty" ELSE "books")
      [] c.op = "book" -> v = DetailLoadingView /\ OnlySent(sent', "interactions", c.arg)
      [] c.op = "recommendations" ->
            v.kind = c.op
            /\ v.content = (IF c.result.data.recommendations = <<>> THEN "empty" ELSE "list")
      [] c.op = "library" ->
            v.kind = c.op
            /\ \E tab \in Tabs :
                  Lists(v, Matching(c.result.data.list, tab))
SessionAbsent == token = Null /\ Stored = Null
C31_LogoutIsFinal ==
    [][(booted /\ SessionAbsent /\ ~AuthSucceeded(act')) =>
          /\ token' = Null
          /\ getItem(localStorage', RefreshKey) = Null
          /\ \A k \in 1..Len(sent') : sent'[k].kind # "retry"]_vars

\* C32: the refresh token being single-use, when two requests were answered
\* 401 and the refresh of one has succeeded, the refresh of the other, which
\* carries the token that is spent, fails without tearing the new session
\* down: the access token, the durable refresh token and the view stay.
\* (Each call that sees its own refresh fail runs logout().)
SpentRefreshFails(step) ==
    /\ step.name = "RespondRefresh" /\ step.status = 401
    /\ token # Null /\ Stored # Null
    /\ token.n = issued /\ Stored.n = issued
    /\ \A c \in Waiting : c.phase = "refresh" => c.rt # Stored
C32_FailedRefreshKeepsNewSession ==
    [][SpentRefreshFails(act') =>
          /\ token' = token
          /\ localStorage' = localStorage
          /\ app'.kind # "auth"]_vars

\* C33: after a teardown the entry view stays displayed until a login or a
\* register succeeds: while the entry view is shown, no step other than the
\* return of a successful login or register replaces it, so no continuation
\* of a load started before the teardown puts protected content in its
\* place.  (The Book Detail chain writes its markup into the root whatever
\* view is current.)
C33_EntryViewStaysAfterTeardown ==
    [][(booted /\ app.kind = "auth" /\ ~AuthSucceeded(act')) =>
          app'.kind = "auth"]_vars

\* C34: whenever the entry view is displayed and no request is in flight,
\* the access token and the durable refresh token are both absent, also
\* after a startup restore that failed and after a login that was rejected.
\* (A failed restore leaves the stale token under 'mg_refresh'.)
C34_EntryViewMeansNoSession ==
    (booted /\ app.kind = "auth" /\ Pending = {}) =>
        (token = Null /\ Stored = Null)

\* C35: in the Discover view, once no list request is pending, the list shown
\* and the stored total are those of the answer to the list fetch issued
\* last, in whatever order overlapping answers arrive.  Stated for the first
\* search typed while the initial list is loading: the page has seen one user
\* event, the debounce timer has fired and issued the second fetch, that
\* fetch has been answered and handled, and the answer to the initial fetch,
\* whose query is no longer the current one, is handled last: the grid and
\* the total stay.  (Each answer is applied on arrival.)
Superseded(c) ==
    /\ c.op = "loadBooks" /\ c.phase = "returned"
    /\ <<c.loc.page, c.loc.search, c.loc.genre>> # <<page, searchQuery, genreFilter>>
LateAnswer(step) ==
    /\ step.name = "Continue" /\ step.op = "loadBooks"
    /\ app.kind = "discover"
    /\ events = 1 /\ timers = EmptyBag
    /\ BagCardinality(calls) = 1
    /\ \A c \in Pending : Superseded(c)
C35_LatestFetchWins ==
    [][LateAnswer(act') =>
          /\ totalBooks' = totalBooks
          /\ app'.grid = app.grid
          /\ app'.gridMsg = app.gridMsg]_vars

\* C36: state.page is at least 1 in every state, and whenever the Discover
\* view is shown with no list request pending, state.page is at most
\* max(1, ceil(state.totalBooks / 20)), the totals of the server being fixed
\* per query.  (A Next click between a new query and its answer uses the
\* pagination of the old query.)
ListPending == \E c \in Pending : c.op = "loadBooks"
LastPage == IF Ceil(totalBooks, pageSize) > 1 THEN Ceil(totalBooks, pageSize) ELSE 1
C36_PageWithinRange ==
    /\ page >= 1
    /\ (app.kind = "discover" /\ ~ListPending) => page <= LastPage

\* C37: one click on an enabled Previous or Next button issues exactly one
\* list fetch, however many list fetches have completed in this Discover
\* view instance.  (renderPagination adds a click listener to #pagination
\* each time it draws the buttons, and every listener issues a fetch.)
Enabled(which) ==
    /\ app.kind = "discover" /\ app.pagination.present
    /\ IF which = "prev" THEN ~app.pagination.prevDisabled
                         ELSE ~app.pagination.nextDisabled
C37_OneFetchPerPaginationClick ==
    [][(act'.name = "PaginationClick" /\ Enabled(act'.op)) =>
          /\ Len(sent') = 1
          /\ sent'[1].op = "loadBooks"]_vars

\* C38: within one Book Detail view at most one like write and at most one
\* bookmark write is outstanding: a click on Like (on Bookmark) made while
\* the write of an earlier click of this view is not yet confirmed issues no
\* network call.  (The handlers test the active class only, which is set on
\* confirmation.)
Outstanding(kind) == \E c \in Pending : c.op = kind /\ c.live
C38_OneWriteOutstanding ==
    [][/\ (act'.name = "LikeClick" /\ Outstanding("like")) => sent' = <<>>
       /\ (act'.name = "BookmarkClick" /\ Outstanding("bookmark")) => sent' = <<>>]_vars

\* C39: a debounce timer armed in a Discover view instance that has been
\* superseded (by a navigation away or by a new Discover view) changes
\* neither state.searchQuery nor state.page and issues no list fetch when it
\* fires.  (navigate clears no timer, and the callback runs unguarded.)
C39_SupersededTimerIsInert ==
    [][(act'.name = "TimerFires" /\ \A t \in BagToSet(timers) : ~t.live) =>
          /\ searchQuery' = searchQuery
          /\ page' = page
          /\ sent' = <<>>]_vars

\* C40: in the Library view, the error shown after the history fetch failed
\* stays: a click on a tab never replaces it by the 'Nothing here yet'
\* affordance; and a tab clicked while the fetch is pending never shows that
\* affordance either.  (The tab handler lists the closure's allInteractions,
\* which is [] until the fetch has succeeded.)
C40_TabKeepsErrorAndLoading ==
    [][(act'.name = "TabClick" /\ app.kind = "library"
           /\ app.content \in {"error", "loading"}) =>
          app'.content # "empty"]_vars

====
